---- MODULE Spec2Model ----
(***************************************************************************)
(* The signed job pipeline of extractor-app-api: verifySignature, the      *)
(* accept-then-process-then-callback handlers and the per-item batch loop, *)
(* for each of the service variants kept in the repository (Spec); the     *)
(* field-tree interpreter generateJsonSchema on its own (SpecSchema); and  *)
(* userDailyLimit under concurrent requests (SpecQuota).                   *)
(*                                                                         *)
(* Strings are sequences of one-character strings, so that concatenation   *)
(* (template literals), parseInt and the HMAC input are computed on the    *)
(* characters.                                                             *)
(***************************************************************************)
EXTENDS Integers, Sequences, FiniteSets, TLC

VARIABLES app, now, req, pc, res, lateWrites, trace, hooks, idx, parsedData, result,
          emitted,
          rooms, inbox,
          detectedFoods, realFoodData, lookup, referenceGiven, analyzedFileFoodData,
          schemaInput, document,
          foodsArg, roundedFoods,
          USER_DAILY_LIMIT, redisCount, redisTtl, calls,
          uploads,
          tempFilePath, inodeData, upserts, vectorStores, storedFiles

\* the sockets of the progress channel
socketVars == <<rooms, inbox>>

\* the data of a food-analysis job
foodVars ==
  <<detectedFoods, realFoodData, lookup, referenceGiven, analyzedFileFoodData>>

\* the argument and the value of generateJsonSchema
schemaVars == <<schemaInput, document>>

\* the argument and the value of roundFoodNutrients
roundVars == <<foodsArg, roundedFoods>>

\* the daily counter and the requests that share it
quotaVars == <<USER_DAILY_LIMIT, redisCount, redisTtl, calls>>

\* the temporary file of os.tmpdir(), the calls of upsertSchemaFile that share
\* it and the files of the remote store
upsertVars == <<tempFilePath, inodeData, upserts, vectorStores, storedFiles>>

\* one request and its processing
requestVars ==
  <<app, now, req, pc, res, lateWrites, trace, hooks, idx, parsedData, result,
    emitted>>

vars ==
  <<uploads, upsertVars, requestVars, socketVars, foodVars, schemaVars, roundVars, quotaVars,
    uploads, upsertVars>>

(***************************************************************************)
(* Bounds of the model.                                                    *)
(***************************************************************************)
MaxBatch == 2
NowBase == 1000
MaxFoods == 2
MaxDepth == 2
MaxRequests == 4
DailyLimit == 2

(***************************************************************************)
(* Program constants.                                                      *)
(***************************************************************************)
ReplayWindow == 300
ExpireSeconds == 86400

(***************************************************************************)
(* JavaScript values.                                                      *)
(***************************************************************************)
Undefined == <<"undefined-value">>
Null == <<"null-value">>
NaN == -1
EmptyStr == <<>>

Falsy(v) == v = Undefined \/ v = Null \/ v = EmptyStr

\* `${v}` : the string a template literal inserts for v
ToStr(v) ==
  IF v = Undefined THEN <<"u", "n", "d", "e", "f", "i", "n", "e", "d">> ELSE v

Digits == {"0", "1", "2", "3", "4", "5", "6", "7", "8", "9"}

DigitVal(c) ==
  CASE c = "0" -> 0 [] c = "1" -> 1 [] c = "2" -> 2 [] c = "3" -> 3
    [] c = "4" -> 4 [] c = "5" -> 5 [] c = "6" -> 6 [] c = "7" -> 7
    [] c = "8" -> 8 [] c = "9" -> 9

RECURSIVE ParseDigits(_, _, _)
ParseDigits(s, k, acc) ==
  IF k > Len(s) \/ s[k] \notin Digits THEN acc
  ELSE ParseDigits(s, k + 1, acc * 10 + DigitVal(s[k]))

\* parseInt(s): the value of the longest prefix of decimal digits, NaN when
\* there is none
ParseInt(s) ==
  IF s = <<>> \/ s[1] \notin Digits THEN NaN ELSE ParseDigits(s, 1, 0)

Abs(x) == IF x < 0 THEN 0 - x ELSE x

(***************************************************************************)
(* HMAC-SHA256 as a symbolic digest: equal digests exactly for equal key   *)
(* and equal message.                                                      *)
(***************************************************************************)
SHARED_SECRET == <<"K">>
WrongSecret == <<"X">>

Hmac(key, msg) == <<"hmac:">> \o key \o <<":">> \o msg

\* `${timestamp}.${rawBody}`
SignedMessage(timestamp, rawBody) == ToStr(timestamp) \o <<".">> \o ToStr(rawBody)

(***************************************************************************)
(* generateJsonSchema: the field-tree interpreter.  A JavaScript object is *)
(* a record; an absent property is a field missing from its DOMAIN.  A     *)
(* thrown exception is the value [error |-> ...].  The properties object   *)
(* of a schema is a sequence of <<key, schema>> pairs in insertion order.  *)
(***************************************************************************)
JsNull == "<null>"
EmptyObject == [empty |-> TRUE]
NoReply == [isNull |-> TRUE]
NotCalled == [pending |-> TRUE]
CallThrows == [throws |-> TRUE]

IsError(x) == "error" \in DOMAIN x

Has(obj, name) == name \in DOMAIN obj

\* properties[key] = value: a key already present keeps its place
RECURSIVE ObjSet(_, _, _)
ObjSet(props, key, value) ==
  IF props = <<>> THEN <<<<key, value>>>>
  ELSE IF Head(props)[1] = key THEN <<<<key, value>>>> \o Tail(props)
  ELSE <<Head(props)>> \o ObjSet(Tail(props), key, value)

RECURSIVE buildField(_)
RECURSIVE buildProps(_, _, _)

\* fields.forEach(f => { properties[f.key] = buildField(f); required.push(f.key) })
buildProps(fields, k, acc) ==
  IF k > Len(fields) THEN acc
  ELSE LET built == buildField(fields[k]) IN
       IF IsError(built) THEN built
       ELSE buildProps(fields, k + 1,
                       [properties |-> ObjSet(acc.properties, fields[k].key, built),
                        required |-> Append(acc.required, fields[k].key)])

buildField(field) ==
  LET base == [type |-> field.type,
               description |-> IF Has(field, "description")
                               THEN field.description ELSE JsNull]
      asObject ==
        IF field.type # "object" THEN base
        ELSE IF ~Has(field, "properties") THEN [error |-> "TypeError"]
        ELSE LET built == buildProps(field.properties, 1,
                                     [properties |-> <<>>, required |-> <<>>]) IN
             IF IsError(built) THEN built
             ELSE base @@ [properties |-> built.properties,
                           required |-> built.required,
                           additionalProperties |-> FALSE]
  IN
  IF IsError(asObject) THEN asObject
  ELSE IF field.type # "array" THEN asObject
  ELSE IF ~Has(field, "items") THEN [error |-> "MissingItems"]
  ELSE IF field.items.type = "object"
  THEN IF ~Has(field, "properties") THEN [error |-> "TypeError"]
       ELSE LET built == buildProps(field.properties, 1,
                                    [properties |-> <<>>, required |-> <<>>]) IN
            IF IsError(built) THEN built
            ELSE asObject @@ [items |-> [type |-> "object",
                                         properties |-> built.properties,
                                         required |-> built.required,
                                         additionalProperties |-> FALSE]]
  ELSE asObject @@ [items |-> [type |-> field.items.type]]

\* a root schema whose required list leaves out the first field
buildObjectSchema_FirstOptional(fields) ==
  LET built == buildProps(fields, 1, [properties |-> <<>>, required |-> <<>>]) IN
  IF IsError(built) THEN built
  ELSE [type |-> "object", properties |-> built.properties,
        required |-> IF built.required = <<>> THEN <<>> ELSE Tail(built.required),
        additionalProperties |-> FALSE]

buildObjectSchema(fields) ==
  LET built == buildProps(fields, 1, [properties |-> <<>>, required |-> <<>>]) IN
  IF IsError(built) THEN built
  ELSE [type |-> "object", properties |-> built.properties,
        required |-> built.required, additionalProperties |-> FALSE]

\* input is the parsed output of the model, [isNull |-> TRUE] when there is none
generateJsonSchema(input) ==
  IF Has(input, "isNull") \/ ~Has(input, "fields") THEN [error |-> "TypeError"]
  ELSE LET schema == buildObjectSchema(input.fields) IN
       IF IsError(schema) THEN schema
       ELSE [name |-> input.schema_name, strict |-> TRUE, schema |-> schema]

(***************************************************************************)
(* Field trees handed to generateJsonSchema, by nesting depth.  A field is *)
(* {key, type, description, items, properties}; any of the last three may  *)
(* be missing, and the type may be one no branch of buildField knows.      *)
(***************************************************************************)
FieldKeys == {"a", "b"}

LeafTypes == {"string", "number", "date"}

LeafFields ==
  {[key |-> k, type |-> t] : k \in FieldKeys, t \in LeafTypes}
  \cup {[key |-> "a", type |-> "boolean", description |-> "flag"]}

\* the lists of sibling fields made of nodes: none, one, or one after a
\* leading string field "a"
SiblingLists(nodes) ==
  {<<>>} \cup {<<n>> : n \in nodes}
         \cup {<<[key |-> "a", type |-> "string"], n>> : n \in nodes}

\* item definitions: a primitive, an object (its sub-fields stand in the
\* array field's properties, or in its own), an array with or without its
\* own item definition
RECURSIVE ItemDefs(_)
ItemDefs(d) ==
  {[type |-> "string"], [type |-> "date"], [type |-> "object"], [type |-> "array"],
   [type |-> "object", properties |-> <<[key |-> "a", type |-> "string"]>>]}
  \cup (IF d = 0 THEN {}
        ELSE {[type |-> "array", items |-> i] : i \in ItemDefs(d - 1)})

RECURSIVE FieldNodes(_)
FieldNodes(d) ==
  IF d = 0 THEN LeafFields
  ELSE LET below == SiblingLists(FieldNodes(d - 1)) IN
       LeafFields
       \cup {[key |-> k, type |-> "object"] : k \in FieldKeys}
       \cup {[key |-> k, type |-> "object", properties |-> ps] :
               k \in FieldKeys, ps \in below}
       \cup {[key |-> k, type |-> "array"] : k \in FieldKeys}
       \cup {[key |-> k, type |-> "array", items |-> i] :
               k \in FieldKeys, i \in ItemDefs(d - 1)}
       \cup {[key |-> k, type |-> "array", items |-> i, properties |-> ps] :
               k \in FieldKeys,
               i \in {[type |-> "object"], [type |-> "string"],
                      [type |-> "object",
                       properties |-> <<[key |-> "b", type |-> "number"]>>]},
               ps \in below}

\* the arguments of generateJsonSchema: null, or a parsed reply with fields
SchemaInputs ==
  {NoReply} \cup
  {[schema_name |-> "doc", fields |-> fs] :
     fs \in SiblingLists(FieldNodes(MaxDepth - 1))}

(***************************************************************************)
(* The service variants and their routes.                                  *)
(***************************************************************************)
Apps ==
  {"part_002a", "part_003", "index", "part_002b", "part_000a", "part_000b",
   "part_001", "part_004"}

FoodApps == {"part_001", "part_004"}

Routes(a) ==
  CASE a = "part_002a" -> {"extract-data", "generate-schema"}
    [] a = "part_003" -> {"extract-data", "generate-schema", "transcribe"}
    [] a = "index" -> {"extract-data", "generate-schema",
                       "analyze-file-for-schema", "transcribe"}
    [] a = "part_002b" -> {"extract-data", "generate-schema",
                           "analyze-file-for-schema", "transcribe",
                           "analyze-food-image"}
    [] a = "part_000a" -> {"extract-declared-data"}
    [] a = "part_000b" -> {"extract-data"}
    [] a \in FoodApps -> {"analyze-food-image"}

\* which verifySignature a variant defines: with the replay window, without
\* it, or over the raw body only
GuardKind(a) ==
  CASE a \in {"part_002a", "part_003"} -> "replay"
    [] a \in {"index", "part_002b"} -> "noreplay"
    [] a = "part_000b" -> "bodyonly"
    [] OTHER -> "none"

\* the routes that list verifySignature among their middleware
Guarded(a, route) == a \in {"part_002a", "part_003", "index", "part_002b"}

\* the routes that run upload.single("file") before verifySignature
HasUpload(a, route) == route = "transcribe" \/ a \in FoodApps

\* the variants whose express.json carries the verify hook that keeps rawBody
HasVerifyHook(a) == a \in {"part_002a", "part_003", "index", "part_002b"}

(***************************************************************************)
(* Requests.  The raw JSON body is a string with one character per batch   *)
(* item: "t" a text item, "i" an image item.                               *)
(***************************************************************************)
ItemChars == {"t", "i"}

RawBodies == UNION {[1..n -> ItemChars] : n \in 1..MaxBatch}

Timestamps ==
  { Undefined, EmptyStr,
    <<"1", "0", "0", "0">>, <<"7", "0", "0">>, <<"6", "9", "9">>,
    <<"1", "3", "0", "1">>, <<"x">> }

Signatures(timestamp, rawBody) ==
  { Undefined, EmptyStr,
    Hmac(SHARED_SECRET, SignedMessage(timestamp, rawBody)),
    Hmac(SHARED_SECRET, ToStr(rawBody)),
    Hmac(WrongSecret, SignedMessage(timestamp, rawBody)),
    Hmac(SHARED_SECRET, SignedMessage(timestamp, ToStr(rawBody) \o <<"t">>)) }

\* JSON.parse of a raw body: the batch items in submission order
JsonParse(raw) ==
  [k \in 1..Len(raw) |->
     [fileId |-> k, fileType |-> IF raw[k] = "i" THEN "image" ELSE "text"]]

NoReq ==
  [route |-> "none", signature |-> Undefined, timestamp |-> Undefined,
   rawBody |-> Undefined, json |-> FALSE, sent |-> <<>>, body |-> <<>>,
   verifiedBody |-> <<>>, file |-> FALSE]

(***************************************************************************)
(* The progress channel: sockets join the room of a job id, and an event   *)
(* for a job goes to the sockets in its room when it is emitted.           *)
(***************************************************************************)
Sockets == {"s1", "s2"}

JobIds == {"job-1", "job-2"}

\* crypto.randomUUID() of the request at hand
JobId == "job-1"

\* io.to(jobId): every socket in the room
Recipients_Broadcast(jobId) == {s \in Sockets : rooms[s] # {}}

\* io.to(jobId): the sockets that are in the room of jobId now
Recipients(jobId) == {s \in Sockets : jobId \in rooms[s]}

(***************************************************************************)
(* Food data.  A number is kept in tenths (124 is 12.4), so that           *)
(* Math.round has something to round.                                      *)
(***************************************************************************)
Menu == <<"rice", "egg", "soup">>

\* generatedData.detectedFoods
DetectedFoodLists ==
  {[k \in 1..n |-> [foodName |-> Menu[k], servingSize |-> 500]] :
     n \in 0..MaxFoods}

NoReferenceData == [none |-> TRUE]

\* `${promise}`
ObjectPromise == [text |-> "[object Promise]"]

\* what the USDA search answers for one food: the fetch fails, no food
\* matches, the first match has no foodNutrients array, or it has one, with
\* an energy of 200 or of 0
UsdaReplies == {"throw", "nomatch", "nonutrients", "match", "zero"}

\* data.foods of a search reply
UsdaFoods(reply) ==
  CASE reply = "nomatch" -> <<>>
    [] reply = "nonutrients" ->
         <<[servingSizeUnit |-> "g", servingSize |-> 1000]>>
    [] reply \in {"match", "zero"} ->
         <<[servingSizeUnit |-> "g", servingSize |-> 1000,
            foodNutrients |->
              << [nutrientName |-> "Energy",
                  value |-> IF reply = "zero" THEN 0 ELSE 2000,
                  unitName |-> "KCAL"],
                 [nutrientName |-> "Protein", unitName |-> "G"],
                 [value |-> 20, unitName |-> "G"] >>]>>

\* .filter(n => n.nutrientName && typeof n.value === "number"): a nutrient
\* without a number has no value field here
RECURSIVE FilterNutrients(_)
FilterNutrients(ns) ==
  IF ns = <<>> THEN <<>>
  ELSE IF Has(Head(ns), "nutrientName") /\ Has(Head(ns), "value")
  THEN <<Head(ns)>> \o FilterNutrients(Tail(ns))
  ELSE FilterNutrients(Tail(ns))

\* the body of the loop of enrichFoodsWithCalories for one food
EnrichFood(food, reply) ==
  IF reply = "throw" THEN [error |-> "FetchError"]
  ELSE LET foods == UsdaFoods(reply) IN
       IF foods = <<>> THEN [error |-> "TypeError"]
       ELSE [foodName |-> food.foodName,
             servingSize |-> foods[1].servingSize,
             nutrients |-> IF Has(foods[1], "foodNutrients")
                           THEN FilterNutrients(foods[1].foodNutrients)
                           ELSE <<>>]

\* realFoodData after the loop, or the exception that ended it
RECURSIVE EnrichLoop(_, _, _, _)
EnrichLoop(foods, replies, k, acc) ==
  IF k > Len(foods) THEN [json |-> acc]
  ELSE LET entry == EnrichFood(foods[k], replies[k]) IN
       IF IsError(entry) THEN entry
       ELSE EnrichLoop(foods, replies, k + 1, Append(acc, entry))

enrichFoodsWithCalories(foods, replies) == EnrichLoop(foods, replies, 1, <<>>)

\* the searches enrichFoodsWithCalories made, with what each answered
RECURSIVE LookupEvents(_, _, _)
LookupEvents(foods, replies, k) ==
  IF k > Len(foods) THEN <<>>
  ELSE <<[ev |-> "lookup", item |-> k], [ev |-> replies[k], item |-> k]>>
       \o (IF IsError(EnrichFood(foods[k], replies[k])) THEN <<>>
           ELSE LookupEvents(foods, replies, k + 1))

\* the values a property of a food object may hold; numbers are in tenths
JsNumber(n) == [type |-> "number", num |-> n]
JsString(s) == [type |-> "string", str |-> s]
JsBoolean(b) == [type |-> "boolean", bool |-> b]
JsNullValue == [type |-> "null"]

\* Number(s) of a string: 0 for the empty string, the decimal it spells, NaN
\* for anything else
StringToNumber(s) ==
  IF s = <<>> THEN 0
  ELSE IF \A k \in 1..Len(s) : s[k] \in Digits THEN 10 * ParseDigits(s, 1, 0)
  ELSE IF /\ Len(s) >= 3
          /\ s[Len(s) - 1] = "."
          /\ \A k \in (1..Len(s)) \ {Len(s) - 1} : s[k] \in Digits
  THEN 10 * ParseDigits(SubSeq(s, 1, Len(s) - 2), 1, 0) + DigitVal(s[Len(s)])
  ELSE NaN

\* Number(value)
ToNumber(value) ==
  CASE value.type = "number" -> value.num
    [] value.type = "string" -> StringToNumber(value.str)
    [] value.type = "boolean" -> IF value.bool THEN 10 ELSE 0
    [] value.type = "null" -> 0

\* isNaN(value)
isNaN(value) == ToNumber(value) = NaN

\* Math.round(n) of a number in tenths
MathRound(n) == ((n + 5) \div 10) * 10

\* roundFoodNutrients(foods)
roundFoodNutrients(foods) ==
  [k \in 1..Len(foods) |->
     [key \in DOMAIN foods[k] |->
        IF key # "foodName" /\ ~isNaN(foods[k][key])
        THEN JsNumber(MathRound(ToNumber(foods[k][key])))
        ELSE foods[k][key]]]

\* calculateTotalCalories(foods)
RECURSIVE calculateTotalCalories(_)
calculateTotalCalories(foods) ==
  IF foods = <<>> THEN 0
  ELSE (IF Has(Head(foods), "calories") /\ ~isNaN(Head(foods).calories)
        THEN ToNumber(Head(foods).calories) ELSE 0)
       + calculateTotalCalories(Tail(foods))

\* the numbers the second model call may return for a nutrient
NutrientValues == {0, 124, 125, 1000}

\* estimatedNutrients.output_parsed: one food per detected food, all with
\* the same numbers
EstimateReplies(foods) ==
  {CallThrows, NoReply} \cup
  { [dishDescription |-> "dish",
     foods |-> [k \in 1..Len(foods) |->
                  [foodName |-> foods[k].foodName,
                   protein |-> JsNumber(v), calories |-> JsNumber(w)]]] :
      v \in {124}, w \in NutrientValues }

(***************************************************************************)
(* Events of one request, in the order they happen.                        *)
(***************************************************************************)
Ev(kind, item) == [ev |-> kind, item |-> item]

\* no call of upsertSchemaFile, no schema.json in os.tmpdir()
NoUpsert ==
  /\ tempFilePath = 0
  /\ inodeData = <<>>
  /\ upserts = <<>>
  /\ vectorStores = <<>>
  /\ storedFiles = {}

Init ==
  /\ app \in Apps
  /\ now = NowBase
  /\ req = NoReq
  /\ pc = "idle"
  /\ res = <<>>
  /\ lateWrites = 0
  /\ trace = <<>>
  /\ hooks = <<>>
  /\ idx = 0
  /\ parsedData = Null
  /\ result = EmptyObject
  /\ emitted = <<>>
  /\ rooms = [s \in Sockets |-> {}]
  /\ inbox = [s \in Sockets |-> <<>>]
  /\ detectedFoods = <<>>
  /\ realFoodData = NoReferenceData
  /\ lookup = "none"
  /\ referenceGiven = NoReferenceData
  /\ analyzedFileFoodData = NoReply
  /\ schemaInput = NoReply
  /\ document = NoReply
  /\ foodsArg = <<>>
  /\ roundedFoods = NotCalled
  /\ uploads = {}
  /\ NoUpsert
  /\ USER_DAILY_LIMIT = NaN
  /\ redisCount = 0
  /\ redisTtl = 0
  /\ calls = <<>>

\* express.json (with its verify hook, parsing a JSON body into req.body),
\* upload.single and the route lookup.
\* Only what the route reads is kept of the request: the two headers where
\* verifySignature is mounted, the parsed body where the handler uses it.
\* req as the middleware before the route leaves it.  sent is the body of a
\* request that is not JSON (a multipart upload): express.json does not read
\* it, so its verify hook sets no rawBody
Request(a, route, timestamp, signature, json, raw) ==
  [route |-> route,
   signature |-> IF Guarded(a, route) THEN signature ELSE Undefined,
   timestamp |-> IF Guarded(a, route) THEN timestamp ELSE Undefined,
   rawBody |-> IF json /\ HasVerifyHook(a) THEN raw ELSE Undefined,
   json |-> json,
   sent |-> IF ~json /\ Guarded(a, route) THEN raw ELSE <<>>,
   body |-> IF json /\ route = "extract-data" THEN JsonParse(raw) ELSE <<>>,
   verifiedBody |-> <<>>,
   file |-> (~json /\ HasUpload(a, route))]

\* req.file.path: the file upload.single("file") has stored under uploads/
FilePath == "uploads/file"

\* the middleware before the guard: express.json for a JSON body, and
\* upload.single("file") on /api/transcribe, which stores the file of a
\* multipart body on disk before verifySignature runs
Receive(route, timestamp, signature, json, raw) ==
  /\ pc = "idle"
  /\ req' = Request(app, route, timestamp, signature, json, raw)
  /\ trace' = IF json THEN <<[ev |-> "express.json", item |-> 0]>> ELSE <<>>
  /\ pc' = IF Guarded(app, route) THEN "verifySignature"
           ELSE IF app \in FoodApps THEN "auth"
           ELSE "handler"
  /\ uploads' = IF route = "transcribe" /\ ~json THEN uploads \cup {FilePath}
                ELSE uploads
  /\ UNCHANGED <<upsertVars, schemaVars, roundVars, quotaVars, foodVars, socketVars,
               app, now, emitted, res, lateWrites, hooks, idx, parsedData, result>>

\* res.status(code).json(...): a write once the response has been sent throws
\* ERR_HTTP_HEADERS_SENT and changes nothing on the wire
Respond(code, kind) ==
  IF res = <<>>
  THEN /\ res' = <<[status |-> code, kind |-> kind]>>
       /\ UNCHANGED lateWrites
  ELSE /\ lateWrites' = lateWrites + 1
       /\ UNCHANGED res

\* verifySignature comparing against the digest of the body alone
VerifyOutcome_BodyOnly(kind, r, t) ==
  LET expected == Hmac(SHARED_SECRET, ToStr(r.rawBody)) IN
  CASE kind = "replay" ->
         IF Falsy(r.signature) \/ Falsy(r.timestamp) THEN 400
         ELSE IF ParseInt(r.timestamp) # NaN
                 /\ Abs(t - ParseInt(r.timestamp)) > ReplayWindow THEN 401
         ELSE IF r.signature # expected THEN 403
         ELSE 0
    [] kind = "noreplay" ->
         IF Falsy(r.signature) \/ Falsy(r.timestamp) THEN 400
         ELSE IF expected # r.signature THEN 403
         ELSE IF r.rawBody = Undefined THEN 500
         ELSE 0
    [] OTHER -> 0

\* the outcome of verifySignature for the request at hand
VerifyOutcome(kind, r, t) ==
  LET expected == Hmac(SHARED_SECRET, SignedMessage(r.timestamp, r.rawBody)) IN
  CASE kind = "replay" ->
         IF Falsy(r.signature) \/ Falsy(r.timestamp) THEN 400
         ELSE IF ParseInt(r.timestamp) # NaN
                 /\ Abs(t - ParseInt(r.timestamp)) > ReplayWindow THEN 401
         ELSE IF r.signature # expected THEN 403
         ELSE 0
    [] kind = "noreplay" ->
         IF Falsy(r.signature) \/ Falsy(r.timestamp) THEN 400
         ELSE IF expected # r.signature THEN 403
         ELSE IF r.rawBody = Undefined THEN 500
         ELSE 0
    [] OTHER -> 0

\* verifySignature comparing the digest before it looks at the timestamp
VerifySignature_DigestFirst ==
  /\ pc = "verifySignature"
  /\ LET first == VerifyOutcome(GuardKind(app), req, now)
         expected == Hmac(SHARED_SECRET, SignedMessage(req.timestamp, req.rawBody))
         code == IF first = 401 /\ req.signature # expected THEN 403 ELSE first IN
       IF code = 0
       THEN /\ pc' = "handler"
            /\ req' = IF GuardKind(app) = "noreplay"
                      THEN [req EXCEPT !.verifiedBody = JsonParse(req.rawBody)]
                      ELSE req
            /\ trace' = Append(trace, [ev |-> "verified", item |-> 0])
            /\ UNCHANGED <<res, lateWrites>>
       ELSE /\ pc' = "done"
            /\ Respond(code, "error")
            /\ UNCHANGED <<req, trace>>
  /\ UNCHANGED <<uploads, upsertVars, schemaVars, roundVars, quotaVars, foodVars, socketVars,
               app, now, emitted, hooks, idx, parsedData, result>>

VerifySignature ==
  /\ pc = "verifySignature"
  /\ LET code == VerifyOutcome(GuardKind(app), req, now) IN
       IF code = 0
       THEN /\ pc' = "handler"
            /\ req' = IF GuardKind(app) = "noreplay"
                      THEN [req EXCEPT !.verifiedBody = JsonParse(req.rawBody)]
                      ELSE req
            /\ trace' = Append(trace, [ev |-> "verified", item |-> 0])
            /\ UNCHANGED <<res, lateWrites>>
       ELSE /\ pc' = "done"
            /\ Respond(code, "error")
            /\ UNCHANGED <<req, trace>>
  /\ UNCHANGED <<uploads, upsertVars, schemaVars, roundVars, quotaVars, foodVars, socketVars,
               app, now, emitted, hooks, idx, parsedData, result>>

(***************************************************************************)
(* Handlers.  Every external call (the extraction capability, analyzeFile, *)
(* the webhook POST) is awaited where the code awaits it: the step that    *)
(* issues it ends with its outcome.                                        *)
(***************************************************************************)
Log(events) == trace' = trace \o events

\* an exception that leaves the async handler: the promise is rejected and
\* nothing more of the handler runs
Threw == pc' = "threw"

\* the handlers that answer with the signed "accepted" body before working
Acknowledges(a, route) ==
  \/ route \in {"extract-data", "generate-schema", "analyze-file-for-schema",
                "analyze-food-image", "extract-declared-data"}
  \/ route = "transcribe" /\ a \in {"index", "part_002b"}

\* the acknowledgment body of a route
AckBody(a, route, t) ==
  CASE route = "extract-declared-data" -> [status |-> "accepted"]
    [] a \in FoodApps ->
         [jobId |-> "job-1", status |-> "file accepted", note |-> "Processing"]
    [] route = "transcribe" ->
         [status |-> "accepted",
          note |-> "Processing, result will be sent to webhook",
          timestamp |-> t]
    [] a = "part_000b" ->
         [status |-> "accepted",
          note |-> "Processing with OpenAI, result will be sent to webhook",
          timestamp |-> t * 1000]
    [] OTHER ->
         [status |-> "accepted",
          note |-> "Processing, result will be sent to webhook",
          timestamp |-> t * 1000]

\* JSON.stringify(ackData): the fields in the order they were written
Stringify(body) ==
  LET Field(key) == IF Has(body, key) THEN <<key, ToString(body[key])>> ELSE <<>> IN
  <<"{">> \o Field("jobId") \o Field("status") \o Field("note")
          \o Field("timestamp") \o <<"}">>

\* the headers of the acknowledgment: res.setHeader("X-Signature", ackSignature)
\* where the handler computes one
AckHeaders(a, route, t) ==
  IF a \in FoodApps \/ route = "extract-declared-data"
  THEN [contentType |-> "application/json"]
  ELSE [contentType |-> "application/json",
        xSignature |-> Hmac(SHARED_SECRET, Stringify(AckBody(a, route, t)))]

\* res.status(200).json(ackData)
RespondAck(body, headers) ==
  IF res = <<>>
  THEN /\ res' = <<[status |-> 200, kind |-> "ack", body |-> body,
                    headers |-> headers]>>
       /\ UNCHANGED lateWrites
  ELSE /\ lateWrites' = lateWrites + 1
       /\ UNCHANGED res

\* the first step of a route after its acknowledgment
FirstStep(a, route) ==
  CASE a \in FoodApps -> "ai:detect"
    [] route = "extract-data" -> "extract:loop"
    [] route = "generate-schema" -> "schema:call"
    [] route = "analyze-file-for-schema" -> "analyze:call"
    [] route = "transcribe" -> "transcribe:call"
    [] route = "analyze-food-image" -> "food:detect"
    [] route = "extract-declared-data" -> "declared:call"

Progress(step, percent) == [name |-> "ai-progress", step |-> step, percent |-> percent]

\* an emit that hands a socket in the room every event of the job so far
Emit_Replay(events) ==
  /\ emitted' = emitted \o events
  /\ inbox' = [s \in Sockets |->
                 IF s \in Recipients(JobId) THEN emitted \o events ELSE inbox[s]]

\* io.to(jobId).emit(...): the events go to the sockets in the room, and to
\* no one else, now or later
Emit(events) ==
  /\ emitted' = emitted \o events
  /\ inbox' = [s \in Sockets |->
                 IF s \in Recipients(JobId) THEN inbox[s] \o events ELSE inbox[s]]

\* startAIProcess(user.id, jobId, fileData) up to its first await: called
\* without await right after the acknowledgment, it publishes its first two
\* events before the handler returns
StartAIProcess ==
  Emit(<<Progress("started", 5), Progress("analyzing_image", 20)>>)

\* a handler that starts its work without having answered
HandlerEntry_WorkFirst ==
  /\ pc = "handler"
  /\ pc' = FirstStep(app, req.route)
  /\ Log(<<Ev("handler", 0)>>)
  /\ UNCHANGED <<uploads, upsertVars, schemaVars, roundVars, quotaVars, foodVars, socketVars,
               app, now, emitted, req, res, lateWrites, hooks, idx, parsedData, result>>

\* the handler up to its first await: destructuring, acknowledgment
HandlerEntry ==
  /\ pc = "handler"
  /\ IF req.route = "transcribe" /\ app \in {"index", "part_002b"} /\ ~req.file
     THEN \* req.file.path of an undefined req.file
          /\ Threw
          /\ Log(<<Ev("handler", 0)>>)
          /\ UNCHANGED <<res, lateWrites, emitted, inbox>>
     ELSE IF app \in FoodApps /\ ~req.file
     THEN /\ Respond(400, "error")
          /\ Log(<<Ev("handler", 0)>>)
          /\ pc' = "done"
          /\ UNCHANGED <<emitted, inbox>>
     ELSE IF Acknowledges(app, req.route)
     THEN /\ RespondAck(AckBody(app, req.route, now),
                         AckHeaders(app, req.route, now))
          /\ Log(<<Ev("handler", 0), Ev("ack", 0)>>)
          /\ pc' = FirstStep(app, req.route)
          /\ IF app \in FoodApps THEN StartAIProcess ELSE UNCHANGED <<emitted, inbox>>
     ELSE /\ pc' = FirstStep(app, req.route)
          /\ Log(<<Ev("handler", 0)>>)
          /\ UNCHANGED <<res, lateWrites, emitted, inbox>>
  /\ UNCHANGED <<uploads, upsertVars, schemaVars, roundVars, quotaVars, foodVars, rooms,
               app, now, req, hooks, idx, parsedData, result>>

(***************************************************************************)
(* POST /api/extract-data                                                  *)
(***************************************************************************)
\* the batch the loop iterates: files, extraction_request or the body itself
BatchDefined(a, r) ==
  IF a \in {"index", "part_002b"} THEN TRUE ELSE r.json

Batch(a, r) ==
  IF a \in {"index", "part_002b"} THEN r.verifiedBody ELSE r.body

\* the object a handler takes its parameters from
BodyRead(a, route) ==
  IF a \in {"index", "part_002b"} /\ route = "extract-data"
  THEN "req.verifiedBody" ELSE "req.body"

\* the value the extraction capability parsed for an item
ParsedOf(k) == <<"data-of-item", ToString(k)>>

ExtractOutcomes == {"parsed", "noparse", "throw"}

\* for (const file of files): the next item, or the end of the handler
ExtractDataLoop ==
  /\ pc = "extract:loop"
  /\ IF ~BatchDefined(app, req)
     THEN Threw /\ UNCHANGED <<idx, parsedData>>
     ELSE IF idx = Len(Batch(app, req))
     THEN pc' = "done" /\ UNCHANGED <<idx, parsedData>>
     ELSE /\ idx' = idx + 1
          /\ parsedData' = Null
          /\ pc' = IF app = "index" THEN "extract:analyze" ELSE "extract:call"
  /\ UNCHANGED <<uploads, upsertVars, schemaVars, roundVars, quotaVars, foodVars, socketVars,
               app, now, emitted, req, res, lateWrites, trace, hooks, result>>

\* index.js: await analyzeFile(requestData, orgId, authType, authSessionId)
\* stands outside the try of the item.  analyzeFile takes orgId for its
\* fileType: unless that is "image" or "typical" extractedMeta stays null and
\* extractedMeta.schema_found throws; otherwise a model call, the schema
\* lookup or generateSchemaFromAI may throw
AnalyzeFileForItem(ok) ==
  /\ pc = "extract:analyze"
  /\ Log(<<Ev("analyzeFile", idx)>> \o (IF ok THEN <<>> ELSE <<Ev("analyzefailed", idx)>>))
  /\ IF ok THEN pc' = "extract:call" ELSE Threw
  /\ UNCHANGED <<uploads, upsertVars, schemaVars, roundVars, quotaVars, foodVars, socketVars,
               app, now, emitted, req, res, lateWrites, hooks, idx, parsedData, result>>

\* what an item's extraction leaves in parsedData, "threw" when the exception
\* is not caught
ExtractResult(a, item, k, outcome) ==
  IF a = "part_000b"
  THEN IF item.fileType = "image"
       THEN CASE outcome = "parsed" -> ParsedOf(k)
              [] outcome = "noparse" -> Null
              [] outcome = "throw" -> <<"threw">>
       ELSE IF outcome = "parsed" THEN ParsedOf(k) ELSE Null
  ELSE IF outcome = "parsed" THEN ParsedOf(k) ELSE Null

\* await openai.chat.completions.parse(...) for the current item
ExtractCall(outcome) ==
  /\ pc = "extract:call"
  /\ Log(<<Ev("extract", idx), Ev(outcome, idx)>>)
  /\ LET r == ExtractResult(app, Batch(app, req)[idx], idx, outcome) IN
       IF r = <<"threw">>
       THEN Threw /\ UNCHANGED parsedData
       ELSE pc' = "extract:post" /\ parsedData' = r
  /\ UNCHANGED <<uploads, upsertVars, schemaVars, roundVars, quotaVars, foodVars, socketVars,
               app, now, emitted, req, res, lateWrites, hooks, idx, result>>

\* the status field of an item's result record
ItemStatus(a, parsed) ==
  IF a = "part_000b" THEN "completed"
  ELSE IF Falsy(parsed) THEN "failed" ELSE "completed"

\* a webhook POST that is issued and not awaited
PostEvents_NotAwaited(k, ok) == <<Ev("post", k)>>

\* the events of a webhook POST that is awaited
PostEvents(k, ok) == <<Ev("post", k), Ev(IF ok THEN "posted" ELSE "postfailed", k)>>

\* responseData of the item and await axios.post(...)
PostItemResult(ok) ==
  /\ pc = "extract:post"
  /\ hooks' = Append(hooks, [kind |-> "item", item |-> Batch(app, req)[idx].fileId,
                             status |-> ItemStatus(app, parsedData),
                             response |-> parsedData, delivered |-> ok])
  /\ Log(PostEvents(idx, ok))
  /\ IF ok THEN pc' = "extract:loop" ELSE Threw
  /\ UNCHANGED <<uploads, upsertVars, schemaVars, roundVars, quotaVars, foodVars, socketVars,
               app, now, emitted, req, res, lateWrites, idx, parsedData, result>>

(***************************************************************************)
(* POST /api/generate-schema                                               *)
(***************************************************************************)
\* `result ? ... : ...` : every object is truthy, null is not
Truthy(r) == ~Has(r, "isNull")

\* parsed replies of the model under dynamicSchema: field trees
FieldTrees ==
  { [schema_name |-> "invoice", folder_name |-> "invoices",
     fields |-> << [key |-> "total", type |-> "number", description |-> "sum"],
                   [key |-> "paid", type |-> "boolean"] >>],
    [schema_name |-> "resume", folder_name |-> "resumes",
     fields |-> << [key |-> "skills", type |-> "array", description |-> "all"] >>],
    [schema_name |-> "order", folder_name |-> "orders",
     fields |-> << [key |-> "buyer", type |-> "object",
                    properties |-> << [key |-> "name", type |-> "string"] >>],
                   [key |-> "lines", type |-> "array",
                    items |-> [type |-> "object"],
                    properties |-> << [key |-> "sku", type |-> "string"] >>] >>] }

\* parsed replies of the model under the zod JsonSchema {name, schema}
ZodReplies ==
  { [name |-> "invoice", schema |-> <<"{", "}">>],
    [name |-> "invoice", schema |-> <<"{">>] }

\* JSON.parse of the schema text of a zod reply
JsonParseText(text) ==
  IF Len(text) >= 2 /\ text[1] = "{" /\ text[Len(text)] = "}"
  THEN [type |-> "object"] ELSE [error |-> "SyntaxError"]

SchemaReplies(a) ==
  {CallThrows, NoReply} \cup
  (IF a \in {"part_002a", "part_003"} THEN ZodReplies ELSE FieldTrees)

\* the body of the try: what result holds after it, the initial {} when
\* anything in it threw
SchemaResult(a, reply) ==
  IF Has(reply, "throws") THEN EmptyObject
  ELSE IF a \in {"part_002a", "part_003"}
  THEN IF Has(reply, "isNull") THEN EmptyObject
       ELSE LET doc == JsonParseText(reply.schema) IN
            IF IsError(doc) THEN EmptyObject
            ELSE [name |-> reply.name, schema |-> doc]
  ELSE LET doc == generateJsonSchema(reply) IN
       IF IsError(doc) THEN EmptyObject ELSE doc

\* the status field of the generate-schema result record
SchemaStatus(r) == IF Truthy(r) THEN "completed" ELSE "failed"

\* generateJsonSchema threw on the field tree the model returned
MalformedTree(a, reply) ==
  /\ a \notin {"part_002a", "part_003"}
  /\ ~Has(reply, "throws")
  /\ IsError(generateJsonSchema(reply))

GenerateSchemaCall(reply) ==
  /\ pc = "schema:call"
  /\ Log(<<Ev("generate", 0)>>
         \o (IF MalformedTree(app, reply) THEN <<Ev("malformed", 0)>> ELSE <<>>))
  /\ result' = SchemaResult(app, reply)
  /\ pc' = "schema:post"
  /\ UNCHANGED <<uploads, upsertVars, schemaVars, roundVars, quotaVars, foodVars, socketVars,
               app, now, emitted, req, res, lateWrites, hooks, idx, parsedData>>

PostSchemaResult(ok) ==
  /\ pc = "schema:post"
  /\ hooks' = Append(hooks, [kind |-> "schema", item |-> 0,
                             status |-> SchemaStatus(result),
                             response |-> result, delivered |-> ok])
  /\ Log(PostEvents(0, ok))
  /\ IF ~ok THEN Threw
     ELSE pc' = IF app = "part_002b" THEN "schema:upsert" ELSE "done"
  /\ UNCHANGED <<uploads, upsertVars, schemaVars, roundVars, quotaVars, foodVars, socketVars,
               app, now, emitted, req, res, lateWrites, idx, parsedData, result>>

\* part_002b: await upsertSchemaFile(...) after the delivery
UpsertSchemaFile(ok) ==
  /\ pc = "schema:upsert"
  /\ Log(<<Ev("upsert", 0)>>)
  /\ IF ok THEN pc' = "done" ELSE Threw
  /\ UNCHANGED <<uploads, upsertVars, schemaVars, roundVars, quotaVars, foodVars, socketVars,
               app, now, emitted, req, res, lateWrites, hooks, idx, parsedData, result>>

(***************************************************************************)
(* POST /api/analyze-file-for-schema                                       *)
(***************************************************************************)
AnalyzeFileCall(ok) ==
  /\ pc = "analyze:call"
  /\ Log(<<Ev("analyzeFile", 0)>>)
  /\ IF ok THEN pc' = "analyze:post" ELSE Threw
  /\ UNCHANGED <<uploads, upsertVars, schemaVars, roundVars, quotaVars, foodVars, socketVars,
               app, now, emitted, req, res, lateWrites, hooks, idx, parsedData, result>>

PostFileSchema(ok) ==
  /\ pc = "analyze:post"
  /\ hooks' = Append(hooks, [kind |-> "file-schema", item |-> 0,
                             status |-> "none",
                             response |-> EmptyObject, delivered |-> ok])
  /\ Log(PostEvents(0, ok))
  /\ IF ok THEN pc' = "done" ELSE Threw
  /\ UNCHANGED <<uploads, upsertVars, schemaVars, roundVars, quotaVars, foodVars, socketVars,
               app, now, emitted, req, res, lateWrites, idx, parsedData, result>>

(***************************************************************************)
(* POST /api/transcribe of part_003: the transcription is awaited and its  *)
(* text is the response.  (In index.js and part_002b the handler stops at  *)
(* req.file.path: a multipart request, the only kind with a req.file, has  *)
(* no rawBody and fails in verifySignature's JSON.parse.)                  *)
(***************************************************************************)
TranscribeCall(ok) ==
  /\ pc = "transcribe:call"
  /\ Log(<<Ev("transcribe", 0)>>)
  /\ IF app = "part_003"
     THEN IF ok /\ req.file
          THEN \* fs.unlinkSync(filePath), then res.json({ text })
               /\ uploads' = uploads \ {FilePath}
               /\ Respond(200, "result")
          ELSE \* req.file.path of an undefined req.file, or the transcription
               \* rejecting: the catch answers 500 and unlinks nothing
               /\ UNCHANGED uploads
               /\ Respond(500, "error")
     ELSE \* index.js, part_002b: the catch logs, and
          \* finally { if (fs.existsSync(filePath)) fs.unlinkSync(filePath) }
          /\ uploads' = uploads \ {FilePath}
          /\ UNCHANGED <<res, lateWrites>>
  /\ pc' = "done"
  /\ UNCHANGED <<upsertVars, schemaVars, roundVars, quotaVars, foodVars, socketVars,
               app, now, emitted, req, hooks, idx, parsedData, result>>

(***************************************************************************)
(* POST /api/analyze-food-image of part_002b: the whole handler is one     *)
(* try whose catch answers 500 on the response.                            *)
(***************************************************************************)
\* catch (error) { res.status(500).json(...) }
FoodCatch == Respond(500, "error") /\ Threw

\* the first model call; enrichFoodsWithCalories(...) is then called and not
\* awaited: realFoodData is its promise, and the searches run on their own
FoodDetect(ok, foods) ==
  /\ pc = "food:detect"
  /\ IF ok
     THEN /\ pc' = "food:estimate"
          /\ detectedFoods' = foods
          /\ realFoodData' = ObjectPromise
          /\ lookup' = IF foods = <<>> THEN "settled" ELSE "pending"
          /\ Log(<<Ev("detect", 0), Ev("enrich", 0)>>
                 \o (IF foods = <<>> THEN <<Ev("enriched", 0)>> ELSE <<>>))
          /\ UNCHANGED <<res, lateWrites>>
     ELSE /\ FoodCatch
          /\ Log(<<Ev("detect", 0)>>)
          /\ UNCHANGED <<detectedFoods, realFoodData, lookup>>
  /\ UNCHANGED <<uploads, upsertVars, schemaVars, roundVars, quotaVars, socketVars, referenceGiven,
               analyzedFileFoodData,
               app, now, emitted, req, hooks, idx, parsedData, result>>

\* the searches of the promise nobody awaits; when they fail the rejection is
\* unhandled, which ends the process unless the runtime only warns
FoodLookupSettles(replies, exits) ==
  /\ lookup = "pending"
  /\ LET data == enrichFoodsWithCalories(detectedFoods, replies) IN
       IF IsError(data)
       THEN /\ Log(LookupEvents(detectedFoods, replies, 1))
            /\ lookup' = "rejected"
            /\ pc' = IF exits /\ pc \notin {"done", "threw"} THEN "threw" ELSE pc
       ELSE /\ Log(LookupEvents(detectedFoods, replies, 1) \o <<Ev("enriched", 0)>>)
            /\ lookup' = "settled"
            /\ UNCHANGED pc
  /\ UNCHANGED <<uploads, upsertVars, schemaVars, roundVars, quotaVars, socketVars, detectedFoods, realFoodData,
               referenceGiven, analyzedFileFoodData,
               app, now, emitted, req, res, lateWrites, hooks, idx, parsedData,
               result>>

\* the second model call, given `${realFoodData}`
FoodEstimate(ok) ==
  /\ pc = "food:estimate"
  /\ Log(<<Ev("estimate", 0)>>)
  /\ referenceGiven' = realFoodData
  /\ IF ok THEN pc' = "food:post" /\ UNCHANGED <<res, lateWrites>>
     ELSE FoodCatch
  /\ UNCHANGED <<uploads, upsertVars, schemaVars, roundVars, quotaVars, socketVars, detectedFoods, realFoodData,
               lookup, analyzedFileFoodData,
               app, now, emitted, req, hooks, idx, parsedData, result>>

PostCalorie(ok) ==
  /\ pc = "food:post"
  /\ hooks' = Append(hooks, [kind |-> "calorie", item |-> 0, status |-> "none",
                             response |-> EmptyObject, delivered |-> ok])
  /\ Log(PostEvents(0, ok))
  /\ IF ok THEN pc' = "done" /\ UNCHANGED <<res, lateWrites>>
     ELSE FoodCatch
  /\ UNCHANGED <<uploads, upsertVars, schemaVars, roundVars, quotaVars, foodVars, socketVars,
               app, now, emitted, req, idx, parsedData, result>>

(***************************************************************************)
(* POST /api/extract-declared-data of part_000a                            *)
(***************************************************************************)
DeclaredCall(ok) ==
  /\ pc = "declared:call"
  /\ Log(<<Ev("extract", 0)>>)
  /\ IF ok THEN pc' = "declared:post" /\ UNCHANGED <<res, lateWrites>>
     ELSE Respond(500, "error") /\ Threw
  /\ UNCHANGED <<uploads, upsertVars, schemaVars, roundVars, quotaVars, foodVars, socketVars,
               app, now, emitted, req, hooks, idx, parsedData, result>>

\* await axios.post(webhookUrl, response), then the second res.status(200);
\* its exception is caught and the catch writes once more
DeclaredPost(ok) ==
  /\ pc = "declared:post"
  /\ hooks' = Append(hooks, [kind |-> "declared", item |-> 0, status |-> "none",
                             response |-> EmptyObject, delivered |-> ok])
  /\ Log(PostEvents(0, ok))
  /\ lateWrites' = IF ok THEN lateWrites + 2 ELSE lateWrites + 1
  /\ Threw
  /\ UNCHANGED <<uploads, upsertVars, schemaVars, roundVars, quotaVars, foodVars, socketVars,
               app, now, emitted, req, res, idx, parsedData, result>>

(***************************************************************************)
(* POST /api/analyze-food-image of part_001 and part_004: auth, the daily  *)
(* limit (part_001), the acknowledgment, then startAIProcess detached.     *)
(***************************************************************************)
\* auth: the bearer token is verified, 401 otherwise
Auth(ok) ==
  /\ pc = "auth"
  /\ IF ok
     THEN /\ pc' = IF app = "part_001" THEN "userDailyLimit" ELSE "handler"
          /\ UNCHANGED <<res, lateWrites>>
     ELSE /\ Respond(401, "error")
          /\ pc' = "done"
  /\ UNCHANGED <<uploads, upsertVars, schemaVars, roundVars, quotaVars, foodVars, socketVars,
               app, now, emitted, req, trace, hooks, idx, parsedData, result>>

\* userDailyLimit: next(), 429 over the limit, 401 when the counter fails
UserDailyLimitStep(verdict) ==
  /\ pc = "userDailyLimit"
  /\ IF verdict = 0
     THEN pc' = "handler" /\ UNCHANGED <<res, lateWrites>>
     ELSE Respond(verdict, "error") /\ pc' = "done"
  /\ UNCHANGED <<uploads, upsertVars, schemaVars, roundVars, quotaVars, foodVars, socketVars,
               app, now, emitted, req, trace, hooks, idx, parsedData, result>>

\* socket.on("subscribe-job", ({ jobId }) => socket.join(jobId))
SubscribeJob(s, jobId) ==
  /\ app \in FoodApps
  /\ jobId \notin rooms[s]
  /\ rooms' = [rooms EXCEPT ![s] = @ \cup {jobId}]
  /\ UNCHANGED <<uploads, upsertVars, schemaVars, roundVars, quotaVars, foodVars, requestVars, inbox>>

\* catch (err) { io.to(jobId).emit("ai-error", ...) }
AiCatch(before) ==
  /\ Emit(before \o <<[name |-> "ai-error", step |-> "error"]>>)
  /\ pc' = "done"

DetectOutcomes == {"throw", "noparse", "invalid", "valid"}

\* the first model call and the isValidFood branch
AiDetect(outcome, foods) ==
  /\ pc = "ai:detect"
  /\ Log(<<Ev("detect", 0)>>)
  /\ CASE outcome \in {"throw", "noparse"} ->
            AiCatch(<<>>) /\ UNCHANGED detectedFoods
       [] outcome = "invalid" ->
            /\ Emit(<<Progress("rejected", 100)>>)
            /\ pc' = "ai:reject"
            /\ UNCHANGED detectedFoods
       [] outcome = "valid" ->
            /\ Emit(<<Progress("enriching_foods", 50)>>)
            /\ pc' = "ai:enrich"
            /\ detectedFoods' = foods
  /\ UNCHANGED <<uploads, upsertVars, schemaVars, roundVars, quotaVars, rooms, realFoodData, lookup, referenceGiven,
               analyzedFileFoodData,
               app, now, req, res, lateWrites, hooks, idx, parsedData, result>>

AiPostRejection(ok) ==
  /\ pc = "ai:reject"
  /\ hooks' = Append(hooks, [kind |-> "calorie", item |-> 0, status |-> "rejected",
                             response |-> EmptyObject, delivered |-> ok])
  /\ Log(PostEvents(0, ok))
  /\ IF ok THEN pc' = "done" /\ UNCHANGED <<emitted, inbox>> ELSE AiCatch(<<>>)
  /\ UNCHANGED <<uploads, upsertVars, schemaVars, roundVars, quotaVars, foodVars, rooms,
               app, now, req, res, lateWrites, idx, parsedData, result>>

\* await enrichFoodsWithCalories(generatedData.detectedFoods)
AiEnrich(replies) ==
  /\ pc = "ai:enrich"
  /\ LET data == enrichFoodsWithCalories(detectedFoods, replies) IN
       IF IsError(data)
       THEN /\ Log(<<Ev("enrich", 0)>> \o LookupEvents(detectedFoods, replies, 1))
            /\ AiCatch(<<>>)
            /\ UNCHANGED <<realFoodData, lookup>>
       ELSE /\ Log(<<Ev("enrich", 0)>> \o LookupEvents(detectedFoods, replies, 1)
                   \o <<Ev("enriched", 0)>>)
            /\ realFoodData' = data
            /\ lookup' = "settled"
            /\ Emit(<<Progress("estimating_nutrients", 75)>>)
            /\ pc' = "ai:estimate"
  /\ UNCHANGED <<uploads, upsertVars, schemaVars, roundVars, quotaVars, rooms, detectedFoods, referenceGiven,
               analyzedFileFoodData,
               app, now, req, res, lateWrites, hooks, idx, parsedData, result>>

\* mealData, the payload of the ai-complete event
MealData(analyzed) ==
  [name |-> "ai-complete", step |-> "complete",
   total_calories |-> calculateTotalCalories(roundFoodNutrients(analyzed.foods)),
   detected_foods_with_nutrients |-> analyzed.foods]

\* the second model call, then the completed and ai-complete events
AiEstimate(reply) ==
  /\ pc = "ai:estimate"
  /\ Log(<<Ev("estimate", 0)>>)
  /\ referenceGiven' = realFoodData
  /\ IF Has(reply, "foods")
     THEN /\ analyzedFileFoodData' = reply
          /\ Emit(<<Progress("completed", 100), MealData(reply)>>)
          /\ pc' = "ai:post"
     ELSE AiCatch(<<>>) /\ UNCHANGED analyzedFileFoodData
  /\ UNCHANGED <<uploads, upsertVars, schemaVars, roundVars, quotaVars, rooms, detectedFoods, realFoodData, lookup,
               app, now, req, res, lateWrites, hooks, idx, parsedData, result>>

AiPostResult(ok) ==
  /\ pc = "ai:post"
  /\ hooks' = Append(hooks, [kind |-> "calorie", item |-> 0, status |-> "none",
                             response |-> analyzedFileFoodData, delivered |-> ok])
  /\ Log(PostEvents(0, ok))
  /\ IF ok THEN pc' = "done" /\ UNCHANGED <<emitted, inbox>> ELSE AiCatch(<<>>)
  /\ UNCHANGED <<uploads, upsertVars, schemaVars, roundVars, quotaVars, foodVars, rooms,
               app, now, req, res, lateWrites, idx, parsedData, result>>

Next ==
  \/ /\ pc = "idle"
     /\ \E route \in Routes(app), timestamp \in Timestamps, json \in BOOLEAN,
           raw \in RawBodies :
          \E signature \in Signatures(timestamp,
                                       IF json /\ HasVerifyHook(app) THEN raw
                                       ELSE Undefined) :
            Receive(route, timestamp, signature, json, raw)
  \/ VerifySignature
  \/ HandlerEntry
  \/ ExtractDataLoop
  \/ \E ok \in BOOLEAN : AnalyzeFileForItem(ok)
  \/ \E outcome \in ExtractOutcomes : ExtractCall(outcome)
  \/ \E ok \in BOOLEAN : PostItemResult(ok)
  \/ \E reply \in SchemaReplies(app) : GenerateSchemaCall(reply)
  \/ \E ok \in BOOLEAN : PostSchemaResult(ok)
  \/ \E ok \in BOOLEAN : UpsertSchemaFile(ok)
  \/ \E ok \in BOOLEAN : AnalyzeFileCall(ok)
  \/ \E ok \in BOOLEAN : PostFileSchema(ok)
  \/ \E ok \in BOOLEAN : TranscribeCall(ok)
  \/ \E ok \in BOOLEAN, foods \in DetectedFoodLists : FoodDetect(ok, foods)
  \/ /\ lookup = "pending"
     /\ \E replies \in [1..Len(detectedFoods) -> UsdaReplies], exits \in BOOLEAN :
          FoodLookupSettles(replies, exits)
  \/ \E ok \in BOOLEAN : FoodEstimate(ok)
  \/ \E ok \in BOOLEAN : PostCalorie(ok)
  \/ \E ok \in BOOLEAN : DeclaredCall(ok)
  \/ \E ok \in BOOLEAN : DeclaredPost(ok)
  \/ \E ok \in BOOLEAN : Auth(ok)
  \/ \E verdict \in {0, 429, 401} : UserDailyLimitStep(verdict)
  \/ \E outcome \in DetectOutcomes, foods \in DetectedFoodLists :
       AiDetect(outcome, foods)
  \/ \E ok \in BOOLEAN : AiPostRejection(ok)
  \/ /\ pc = "ai:enrich"
     /\ \E replies \in [1..Len(detectedFoods) -> UsdaReplies] : AiEnrich(replies)
  \/ /\ pc = "ai:estimate"
     /\ \E reply \in EstimateReplies(detectedFoods) : AiEstimate(reply)
  \/ \E s \in Sockets, jobId \in JobIds : SubscribeJob(s, jobId)
  \/ \E ok \in BOOLEAN : AiPostResult(ok)

Spec == Init /\ [][Next]_vars

(***************************************************************************)
(* generateJsonSchema on its own: called once on each argument.            *)
(***************************************************************************)
InitSchema ==
  /\ app = "index"
  /\ now = NowBase
  /\ req = NoReq
  /\ pc = "schema:call"
  /\ res = <<>>
  /\ lateWrites = 0
  /\ trace = <<>>
  /\ hooks = <<>>
  /\ idx = 0
  /\ parsedData = Null
  /\ result = EmptyObject
  /\ emitted = <<>>
  /\ rooms = [s \in Sockets |-> {}]
  /\ inbox = [s \in Sockets |-> <<>>]
  /\ detectedFoods = <<>>
  /\ realFoodData = NoReferenceData
  /\ lookup = "none"
  /\ referenceGiven = NoReferenceData
  /\ analyzedFileFoodData = NoReply
  /\ schemaInput \in SchemaInputs
  /\ document = NotCalled
  /\ foodsArg = <<>>
  /\ roundedFoods = NotCalled
  /\ uploads = {}
  /\ NoUpsert
  /\ USER_DAILY_LIMIT = NaN
  /\ redisCount = 0
  /\ redisTtl = 0
  /\ calls = <<>>

\* result = generateJsonSchema(parsedData)
CallGenerateJsonSchema ==
  /\ document = NotCalled
  /\ document' = generateJsonSchema(schemaInput)
  /\ UNCHANGED <<uploads, upsertVars, requestVars, socketVars, foodVars, roundVars, quotaVars, schemaInput>>

SpecSchema == InitSchema /\ [][CallGenerateJsonSchema]_vars

(***************************************************************************)
(* roundFoodNutrients applied to food objects whose properties hold every  *)
(* kind of JSON value.                                                     *)
(***************************************************************************)
\* the values a property may hold: numbers with and without a fraction,
\* null, booleans, and empty, numeric and other strings
PropertyValues ==
  {JsNumber(0), JsNumber(124), JsNumber(125), JsNullValue,
   JsBoolean(TRUE), JsBoolean(FALSE),
   JsString(<<>>), JsString(<<"1", "2", ".", "4">>), JsString(<<"g">>)}

\* the food objects of a call: foodName, one property of any kind and a
\* number of calories
FoodObjects ==
  {[foodName |-> "rice", protein |-> v, calories |-> JsNumber(c)] :
     v \in PropertyValues, c \in {0, 125}}

FoodArrays ==
  UNION {[1..n -> FoodObjects] : n \in 0..MaxFoods}

InitRound ==
  /\ app = "part_001"
  /\ now = NowBase
  /\ req = NoReq
  /\ pc = "idle"
  /\ res = <<>>
  /\ lateWrites = 0
  /\ trace = <<>>
  /\ hooks = <<>>
  /\ idx = 0
  /\ parsedData = Null
  /\ result = EmptyObject
  /\ emitted = <<>>
  /\ rooms = [s \in Sockets |-> {}]
  /\ inbox = [s \in Sockets |-> <<>>]
  /\ detectedFoods = <<>>
  /\ realFoodData = NoReferenceData
  /\ lookup = "none"
  /\ referenceGiven = NoReferenceData
  /\ analyzedFileFoodData = NoReply
  /\ schemaInput = NoReply
  /\ document = NoReply
  /\ foodsArg \in FoodArrays
  /\ roundedFoods = NotCalled
  /\ uploads = {}
  /\ NoUpsert
  /\ USER_DAILY_LIMIT = NaN
  /\ redisCount = 0
  /\ redisTtl = 0
  /\ calls = <<>>

\* const detectedFoodsWithNutrients = roundFoodNutrients(foods)
CallRoundFoodNutrients ==
  /\ roundedFoods = NotCalled
  /\ roundedFoods' = [foods |-> roundFoodNutrients(foodsArg)]
  /\ UNCHANGED <<uploads, upsertVars, requestVars, socketVars, foodVars, schemaVars, quotaVars, foodsArg>>

SpecRound == InitRound /\ [][CallRoundFoodNutrients]_vars

(***************************************************************************)
(* Properties.                                                             *)
(***************************************************************************)
Happened(kind, item) == \E k \in 1..Len(trace) : trace[k] = Ev(kind, item)

HandlerRan == pc = "handler" \/ Happened("handler", 0)

Finished == pc \in {"done", "threw"}

GuardDecided == Guarded(app, req.route) /\ pc \notin {"idle", "verifySignature"}

Expected == Hmac(SHARED_SECRET, SignedMessage(req.timestamp, req.rawBody))

Status == IF res = <<>> THEN 0 ELSE res[1].status

\* the timestamp is a number more than ReplayWindow seconds from the clock
OutsideWindow ==
  ParseInt(req.timestamp) # NaN /\ Abs(now - ParseInt(req.timestamp)) > ReplayWindow

AllDigits(s) == s # <<>> /\ \A k \in 1..Len(s) : s[k] \in Digits

\* C1 as stated: on a guarded endpoint, for a request carrying both headers,
\* the handler runs only if X-Signature = HMAC(SHARED_SECRET, timestamp.rawBody),
\* and any other signature is answered 403 without running the handler.
C1_AnyOtherSignatureIs403 ==
  (GuardDecided /\ ~Falsy(req.signature) /\ ~Falsy(req.timestamp)) =>
    /\ HandlerRan => req.signature = Expected
    /\ req.signature # Expected => (Status = 403 /\ ~HandlerRan)

\* C1 amended: for a request carrying both headers, the handler runs only if
\* the signature is the HMAC of timestamp.rawBody; any other signature is
\* rejected without running the handler: with 401 when the replay-protected
\* variant finds the timestamp outside the window, with 403 otherwise.
C1_HandlerOnlyOnValidSignature ==
  (GuardDecided /\ ~Falsy(req.signature) /\ ~Falsy(req.timestamp)) =>
    /\ HandlerRan => req.signature = Expected
    /\ req.signature # Expected =>
         /\ ~HandlerRan
         /\ Status = IF GuardKind(app) = "replay" /\ OutsideWindow THEN 401 ELSE 403

C1_Witness ==
  /\ GuardDecided
  /\ ~Falsy(req.signature) /\ ~Falsy(req.timestamp)
  /\ req.signature # Expected
  /\ Status = 403 /\ ~HandlerRan

\* C2: in every variant of verifySignature, a request whose X-Timestamp is
\* not a unix-seconds value within 300 s of the server clock (too old, too
\* far ahead, or not a number) never reaches the route handler, whatever its
\* signature.
C2_StaleTimestampNeverReachesHandler ==
  (GuardDecided /\ ~Falsy(req.signature) /\ ~Falsy(req.timestamp)
   /\ ~(AllDigits(req.timestamp)
        /\ Abs(now - ParseInt(req.timestamp)) <= ReplayWindow)) =>
    ~HandlerRan

\* the events that start external work: extraction, analysis, lookup,
\* transcription
WorkEvents ==
  {"extract", "analyzeFile", "generate", "transcribe", "detect", "enrich",
   "estimate", "upsert", "post"}

C4_OneRecordPerItem ==
  (app \in {"part_002a", "part_003"} /\ req.route = "extract-data"
   /\ req.json /\ Finished /\ Happened("ack", 0)) =>
    /\ Len(hooks) = Len(req.body)
    /\ \A k \in 1..Len(hooks) :
         /\ hooks[k].item = req.body[k].fileId
         /\ Happened("parsed", k) =>
              (hooks[k].status = "completed" /\ hooks[k].response = ParsedOf(k))
         /\ ~Happened("parsed", k) =>
              (hooks[k].status = "failed" /\ hooks[k].response = Null)

\* the first external call made for item k of a batch
ItemStart(k) == IF app = "index" THEN Ev("analyzeFile", k) ELSE Ev("extract", k)

\* C5: within a batch, the work on item k+1 starts only after the webhook
\* POST of item k has completed; each item's record is posted before the
\* next item starts, and the records are posted in submission order.
C5_SequentialInOrder ==
  req.route = "extract-data" =>
    /\ \A p \in 1..Len(trace) :
         (trace[p].item > 1 /\ trace[p] = ItemStart(trace[p].item)) =>
           \E q \in 1..(p - 1) : trace[q] = Ev("posted", trace[p].item - 1)
    /\ \A k \in 1..Len(hooks) : hooks[k].kind = "item" /\ hooks[k].item = k
    /\ Len(hooks) \in {idx - 1, idx}

C5_Witness ==
  /\ req.route = "extract-data"
  /\ Len(hooks) = 2 /\ hooks[2].delivered
  /\ Happened("posted", 1) /\ Happened("extract", 2)

\* C6: once the acknowledgment has been sent, no handler writes to the HTTP
\* response again on any path.
C6_NoWriteAfterAck ==
  Happened("ack", 0) => lateWrites = 0

\* C7: when the webhook POST of item k fails, items k+1..N of the batch are
\* still extracted and their records still posted.
C7_DeliveryFailureIsScoped ==
  (req.route = "extract-data" /\ Finished) =>
    \A k \in 1..idx :
      Happened("postfailed", k) =>
        \A j \in (k + 1)..Len(Batch(app, req)) :
          Happened("extract", j) /\ Happened("post", j)

\* C8: every per-item result record of /api/extract-data has status
\* "completed" exactly when its response is non-null and "failed" exactly
\* when it is null.
C8_StatusMatchesResponse ==
  \A k \in 1..Len(hooks) :
    hooks[k].kind = "item" =>
      /\ hooks[k].status = "completed" <=> hooks[k].response # Null
      /\ hooks[k].status = "failed" <=> hooks[k].response = Null

\* a webhook POST was issued for the request, or a terminal progress event
\* was emitted
TerminalNotification ==
  \/ hooks # <<>>
  \/ \E k \in 1..Len(emitted) :
       \/ emitted[k].name = "ai-error"
       \/ emitted[k].step \in {"completed", "rejected"}

\* C9: every acknowledged request, once all its external calls have
\* returned or failed, has produced a terminal notification.
C9_NoSilentEnd ==
  (Finished /\ Happened("ack", 0)) => TerminalNotification

\* C10: the generate-schema delivery carries "failed" when the generation
\* failed after the acknowledgment, and "completed" only when a schema
\* document was produced.
C10_FailedGenerationIsReported ==
  \A k \in 1..Len(hooks) :
    hooks[k].kind = "schema" =>
      (hooks[k].status = "completed" <=> Has(hooks[k].response, "schema"))

\* a terminal event of a job: the completed or rejected step, or ai-error
IsTerminal(e) == e.name = "ai-error" \/ e.step \in {"completed", "rejected"}

TerminalCount == Cardinality({k \in 1..Len(emitted) : IsTerminal(emitted[k])})

\* C11: on every path of startAIProcess the events of the job have
\* non-decreasing percent values and exactly one terminal event (completed,
\* rejected or an error event), and no progress or error event follows the
\* terminal one (ai-complete, the result that accompanies "completed", is
\* not counted as a further event).
C11_MonotoneOneTerminal ==
  app \in FoodApps =>
    /\ \A i, j \in 1..Len(emitted) :
         (i < j /\ emitted[i].name = "ai-progress" /\ emitted[j].name = "ai-progress")
           => emitted[i].percent <= emitted[j].percent
    /\ TerminalCount <= 1
    /\ (pc = "done" /\ Happened("ack", 0)) => TerminalCount = 1
    /\ \A k \in 1..Len(emitted) :
         IsTerminal(emitted[k]) =>
           \A j \in (k + 1)..Len(emitted) : emitted[j].name = "ai-complete"

\* the events emitted by the step at hand
Published == SubSeq(emitted', Len(emitted) + 1, Len(emitted'))

\* C12: an event published for job J is delivered to exactly the sockets
\* subscribed to J at the moment of publication: each of them receives it, a
\* socket subscribed only to another job receives nothing, and subscribing
\* delivers nothing of what was published before.
C12_DeliveredToCurrentSubscribers ==
  [][\A s \in Sockets :
       inbox'[s] = inbox[s] \o (IF JobId \in rooms[s] THEN Published ELSE <<>>)]_vars

C12_Witness ==
  /\ \E s \in Sockets :
       JobId \in rooms[s] /\ inbox[s] # <<>> /\ Len(inbox[s]) < Len(emitted)
  /\ \E s \in Sockets : rooms[s] = JobIds \ {JobId} /\ inbox[s] = <<>>
  /\ Len(emitted) >= 3

(***************************************************************************)
(* userDailyLimit under concurrent requests of one owner on one day: the   *)
(* requests share the key rate_limit:<userId>:<today>.  Each await of the  *)
(* middleware is a step; redis.incr is atomic on the server.               *)
(***************************************************************************)
Callers == 1..MaxRequests

\* const USER_DAILY_LIMIT = process.env.USER_DAILY_LIMIT, read before
\* dotenv.config() has run: the configured limit when the process
\* environment carries it, undefined when only the .env file does
LimitsRead == {DailyLimit, NaN}

\* count > USER_DAILY_LIMIT; a comparison with undefined is false
OverLimit(count, limit) == limit # NaN /\ count > limit

NewCall == [pc |-> "userDailyLimit", count |-> 0, late |-> FALSE, status |-> 0,
            job |-> FALSE]

InitQuota ==
  /\ app = "part_001"
  /\ now = NowBase
  /\ req = NoReq
  /\ pc = "idle"
  /\ res = <<>>
  /\ lateWrites = 0
  /\ trace = <<>>
  /\ hooks = <<>>
  /\ idx = 0
  /\ parsedData = Null
  /\ result = EmptyObject
  /\ emitted = <<>>
  /\ rooms = [s \in Sockets |-> {}]
  /\ inbox = [s \in Sockets |-> <<>>]
  /\ detectedFoods = <<>>
  /\ realFoodData = NoReferenceData
  /\ lookup = "none"
  /\ referenceGiven = NoReferenceData
  /\ analyzedFileFoodData = NoReply
  /\ schemaInput = NoReply
  /\ document = NoReply
  /\ foodsArg = <<>>
  /\ roundedFoods = NotCalled
  /\ uploads = {}
  /\ NoUpsert
  /\ USER_DAILY_LIMIT \in LimitsRead
  /\ redisCount = 0
  /\ redisTtl = 0
  /\ calls = [r \in Callers |-> NewCall]

\* res.status(code).json(...) of the middleware: the request ends here
Refuse(r, code) == calls' = [calls EXCEPT ![r].pc = "done", ![r].status = code]

\* if (count > USER_DAILY_LIMIT) return res.status(429)...; next()
LimitVerdict(r, count, late) ==
  IF OverLimit(count, USER_DAILY_LIMIT)
  THEN calls' = [calls EXCEPT ![r].pc = "done", ![r].status = 429,
                              ![r].count = count, ![r].late = late]
  ELSE calls' = [calls EXCEPT ![r].pc = "handler", ![r].count = count,
                              ![r].late = late]

\* a limiter that counts only the requests it lets pass
RedisIncr_CountPassedOnly(r, ok) ==
  /\ calls[r].pc = "userDailyLimit"
  /\ IF ~ok
     THEN /\ calls' = [calls EXCEPT ![r].pc = "done", ![r].status = 401,
                                    ![r].late = (redisCount >= DailyLimit)]
          /\ UNCHANGED redisCount
     ELSE /\ redisCount' = IF OverLimit(redisCount + 1, USER_DAILY_LIMIT)
                           THEN redisCount ELSE redisCount + 1
          /\ IF redisCount + 1 = 1
             THEN calls' = [calls EXCEPT ![r].pc = "expire", ![r].count = 1]
             ELSE LimitVerdict(r, redisCount + 1, redisCount >= DailyLimit)
  /\ UNCHANGED <<uploads, upsertVars, requestVars, socketVars, foodVars, schemaVars, roundVars,
               USER_DAILY_LIMIT,
               redisTtl>>

\* const count = await redis.incr(key); the catch answers 401
RedisIncr(r, ok) ==
  /\ calls[r].pc = "userDailyLimit"
  /\ IF ~ok
     THEN /\ calls' = [calls EXCEPT ![r].pc = "done", ![r].status = 401,
                                    ![r].late = (redisCount >= DailyLimit)]
          /\ UNCHANGED redisCount
     ELSE /\ redisCount' = redisCount + 1
          /\ IF redisCount + 1 = 1
             THEN calls' = [calls EXCEPT ![r].pc = "expire", ![r].count = 1]
             ELSE LimitVerdict(r, redisCount + 1, redisCount >= DailyLimit)
  /\ UNCHANGED <<uploads, upsertVars, requestVars, socketVars, foodVars, schemaVars, roundVars,
               USER_DAILY_LIMIT,
               redisTtl>>

\* if (count === 1) await redis.expire(key, 60 * 60 * 24)
RedisExpire(r, ok) ==
  /\ calls[r].pc = "expire"
  /\ IF ok
     THEN redisTtl' = ExpireSeconds /\ LimitVerdict(r, calls[r].count, FALSE)
     ELSE Refuse(r, 401) /\ UNCHANGED redisTtl
  /\ UNCHANGED <<uploads, upsertVars, requestVars, socketVars, foodVars, schemaVars, roundVars,
               USER_DAILY_LIMIT,
               redisCount>>

\* the job handler: 400 without a file, else the acknowledgment with the job
\* id and startAIProcess
JobHandler(r, file) ==
  /\ calls[r].pc = "handler"
  /\ calls' = IF file
              THEN [calls EXCEPT ![r].pc = "done", ![r].status = 200, ![r].job = TRUE]
              ELSE [calls EXCEPT ![r].pc = "done", ![r].status = 400]
  /\ UNCHANGED <<uploads, upsertVars, requestVars, socketVars, foodVars, schemaVars, roundVars,
               USER_DAILY_LIMIT,
               redisCount, redisTtl>>

NextQuota ==
  \/ \E r \in Callers, ok \in BOOLEAN : RedisIncr(r, ok)
  \/ \E r \in Callers, ok \in BOOLEAN : RedisExpire(r, ok)
  \/ \E r \in Callers, file \in BOOLEAN : JobHandler(r, file)

SpecQuota == InitQuota /\ [][NextQuota]_vars

(***************************************************************************)
(* upsertSchemaFile(vectorStoreId, updatedSchemas), called by the jobs of  *)
(* generateSchemaFromAI.  Every call is an async function: it runs to its  *)
(* next await and resumes when the awaited call has settled, so the calls  *)
(* of two jobs interleave at their awaits.  All of them name the same      *)
(* file, path.join(os.tmpdir(), "schema.json").  tempFilePath is the inode *)
(* that path names (0: no such file) and inodeData the contents by inode:  *)
(* a stream that has opened the file keeps its inode when the path is      *)
(* unlinked or written again.                                              *)
(***************************************************************************)
MaxJobs == 2

UpsertCalls == 1..MaxJobs

VectorStoreIds == 1..2

\* the values of updatedSchemas
SchemaReferences == {"references-a", "references-b"}

\* the file a vector store holds before the calls
OldFile(v) == 100 + v

NewUpsert(v, schemas) ==
  [vectorStoreId |-> v, updatedSchemas |-> schemas, pc |-> "list",
   vectorFile |-> 0, fd |-> 0, uploaded |-> "none", error |-> "none"]

InitUpsert ==
  /\ app = "index"
  /\ now = NowBase
  /\ req = NoReq
  /\ pc = "idle"
  /\ res = <<>>
  /\ lateWrites = 0
  /\ trace = <<>>
  /\ hooks = <<>>
  /\ idx = 0
  /\ parsedData = Null
  /\ result = EmptyObject
  /\ emitted = <<>>
  /\ rooms = [s \in Sockets |-> {}]
  /\ inbox = [s \in Sockets |-> <<>>]
  /\ detectedFoods = <<>>
  /\ realFoodData = NoReferenceData
  /\ lookup = "none"
  /\ referenceGiven = NoReferenceData
  /\ analyzedFileFoodData = NoReply
  /\ schemaInput = NoReply
  /\ document = NoReply
  /\ foodsArg = <<>>
  /\ roundedFoods = NotCalled
  /\ USER_DAILY_LIMIT = NaN
  /\ redisCount = 0
  /\ redisTtl = 0
  /\ calls = <<>>
  /\ uploads = {}
  /\ tempFilePath = 0
  /\ inodeData = <<>>
  /\ \E held \in SUBSET VectorStoreIds :
       /\ vectorStores = [v \in VectorStoreIds |->
                            IF v \in held THEN {OldFile(v)} ELSE {}]
       /\ storedFiles = {OldFile(v) : v \in held}
  /\ upserts \in [UpsertCalls ->
                    {NewUpsert(v, schemas) :
                       v \in VectorStoreIds, schemas \in SchemaReferences}]

\* a rejected await or a throwing fs call ends the call
UpsertFails(c, error) ==
  upserts' = [upserts EXCEPT ![c].pc = "failed", ![c].error = error]

\* await openai.vectorStores.files.list(vectorStoreId); data[0] when the
\* store holds a file
ListVectorFiles(c) ==
  /\ upserts[c].pc = "list"
  /\ LET files == vectorStores[upserts[c].vectorStoreId] IN
       IF files = {}
       THEN upserts' = [upserts EXCEPT ![c].pc = "write"]
       ELSE \E f \in files :
              upserts' = [upserts EXCEPT ![c].pc = "vectorStores.files.delete",
                                         ![c].vectorFile = f]
  /\ UNCHANGED <<uploads, requestVars, socketVars, foodVars, schemaVars,
                 roundVars, quotaVars,
                 tempFilePath, inodeData, vectorStores, storedFiles>>

\* await openai.vectorStores.files.delete(vectorFile.id, ...); what the
\* service answers for a file another call has removed is its own choice
DeleteVectorFile(c, ok) ==
  /\ upserts[c].pc = "vectorStores.files.delete"
  /\ LET v == upserts[c].vectorStoreId
         f == upserts[c].vectorFile IN
       IF f \in vectorStores[v]
       THEN /\ ok
            /\ vectorStores' = [vectorStores EXCEPT ![v] = @ \ {f}]
            /\ upserts' = [upserts EXCEPT ![c].pc = "files.delete"]
       ELSE /\ UNCHANGED vectorStores
            /\ IF ok THEN upserts' = [upserts EXCEPT ![c].pc = "files.delete"]
               ELSE UpsertFails(c, "NotFound")
  /\ UNCHANGED <<uploads, requestVars, socketVars, foodVars, schemaVars,
                 roundVars, quotaVars, tempFilePath, inodeData, storedFiles>>

\* await openai.files.delete(vectorFile.id); on return the call goes on, in
\* the same step, to fs.writeFileSync(tempFilePath, JSON.stringify(...)) and
\* to openai.files.create({file: fs.createReadStream(tempFilePath)}), whose
\* stream opens the file later
WriteTempFile(c) ==
  /\ tempFilePath' = IF tempFilePath = 0 THEN Len(inodeData) + 1 ELSE tempFilePath
  /\ inodeData' = IF tempFilePath = 0
                  THEN Append(inodeData, upserts[c].updatedSchemas)
                  ELSE [inodeData EXCEPT ![tempFilePath] = upserts[c].updatedSchemas]
  /\ upserts' = [upserts EXCEPT ![c].pc = "open"]

DeleteFile(c, ok) ==
  /\ upserts[c].pc = "files.delete"
  /\ LET f == upserts[c].vectorFile IN
       IF f \in storedFiles
       THEN /\ ok
            /\ storedFiles' = storedFiles \ {f}
            /\ WriteTempFile(c)
       ELSE /\ UNCHANGED storedFiles
            /\ IF ok THEN WriteTempFile(c)
               ELSE UpsertFails(c, "NotFound") /\ UNCHANGED <<tempFilePath, inodeData>>
  /\ UNCHANGED <<uploads, requestVars, socketVars, foodVars, schemaVars,
                 roundVars, quotaVars, vectorStores>>

\* the same step of a call whose vector store held no file
WriteSchemaFile(c) ==
  /\ upserts[c].pc = "write"
  /\ WriteTempFile(c)
  /\ UNCHANGED <<uploads, requestVars, socketVars, foodVars, schemaVars,
                 roundVars, quotaVars, vectorStores, storedFiles>>

\* the read stream opens tempFilePath: ENOENT when the path names no file,
\* which rejects openai.files.create
OpenReadStream(c) ==
  /\ upserts[c].pc = "open"
  /\ IF tempFilePath = 0
     THEN UpsertFails(c, "ENOENT")
     ELSE upserts' = [upserts EXCEPT ![c].pc = "read", ![c].fd = tempFilePath]
  /\ UNCHANGED <<uploads, requestVars, socketVars, foodVars, schemaVars,
                 roundVars, quotaVars,
                 tempFilePath, inodeData, vectorStores, storedFiles>>

\* the stream is read and sent: the uploaded file holds what the inode holds
\* then, and openai.files.create resolves with the new file's id
UploadFile(c) ==
  /\ upserts[c].pc = "read"
  /\ upserts' = [upserts EXCEPT ![c].pc = "vectorStores.files.create",
                                ![c].uploaded = inodeData[upserts[c].fd]]
  /\ storedFiles' = storedFiles \cup {c}
  /\ UNCHANGED <<uploads, requestVars, socketVars, foodVars, schemaVars,
                 roundVars, quotaVars, tempFilePath, inodeData, vectorStores>>

\* await openai.vectorStores.files.create(vectorStoreId, {file_id}), then
\* fs.unlinkSync(tempFilePath), which throws ENOENT when the path names no
\* file, then return {file_id}
AttachAndUnlink(c) ==
  /\ upserts[c].pc = "vectorStores.files.create"
  /\ vectorStores' = [vectorStores EXCEPT ![upserts[c].vectorStoreId] = @ \cup {c}]
  /\ IF tempFilePath = 0
     THEN UpsertFails(c, "ENOENT") /\ UNCHANGED tempFilePath
     ELSE /\ tempFilePath' = 0
          /\ upserts' = [upserts EXCEPT ![c].pc = "done"]
  /\ UNCHANGED <<uploads, requestVars, socketVars, foodVars, schemaVars,
                 roundVars, quotaVars, inodeData, storedFiles>>

NextUpsert ==
  \/ \E c \in UpsertCalls : ListVectorFiles(c)
  \/ \E c \in UpsertCalls, ok \in BOOLEAN : DeleteVectorFile(c, ok)
  \/ \E c \in UpsertCalls, ok \in BOOLEAN : DeleteFile(c, ok)
  \/ \E c \in UpsertCalls : WriteSchemaFile(c)
  \/ \E c \in UpsertCalls : OpenReadStream(c)
  \/ \E c \in UpsertCalls : UploadFile(c)
  \/ \E c \in UpsertCalls : AttachAndUnlink(c)

SpecUpsert == InitUpsert /\ [][NextUpsert]_vars

(***************************************************************************)
(* Properties of generateJsonSchema.                                       *)
(***************************************************************************)
Called == document # NotCalled

Produced == Called /\ ~IsError(document)

RecognizedTypes == {"string", "number", "boolean", "array", "object"}

PropertyKeys(props) == [k \in 1..Len(props) |-> props[k][1]]

DistinctKeys(fields) ==
  \A i, j \in 1..Len(fields) : i # j => fields[i].key # fields[j].key

\* a field tree as buildField reads it: recognized types, distinct sibling
\* keys, the sub-fields of an object in its properties, an array with its
\* items, and the sub-fields of an array of objects in the array field's
\* properties
RECURSIVE WellFormedField(_)
WellFormedFields(fields) ==
  DistinctKeys(fields) /\ \A k \in 1..Len(fields) : WellFormedField(fields[k])

WellFormedField(field) ==
  /\ field.type \in RecognizedTypes
  /\ field.type = "object" =>
       Has(field, "properties") /\ WellFormedFields(field.properties)
  /\ field.type = "array" =>
       /\ Has(field, "items")
       /\ field.items.type \in RecognizedTypes
       /\ field.items.type = "object" =>
            Has(field, "properties") /\ WellFormedFields(field.properties)

WellFormed(tree) == Has(tree, "fields") /\ WellFormedFields(tree.fields)

\* every object node of a schema document has required = the keys of its
\* properties, in order, and additionalProperties = false
RECURSIVE ObjectNodesClosed(_)
ObjectNodesClosed(node) ==
  /\ node.type = "object" =>
       /\ Has(node, "properties") /\ Has(node, "required")
       /\ Has(node, "additionalProperties")
       /\ node.required = PropertyKeys(node.properties)
       /\ node.additionalProperties = FALSE
       /\ \A k \in 1..Len(node.properties) :
            ObjectNodesClosed(node.properties[k][2])
  /\ Has(node, "items") => ObjectNodesClosed(node.items)

RECURSIVE ArrayWithoutItems(_)
ArrayWithoutItems(node) ==
  \/ node.type = "array" /\ ~Has(node, "items")
  \/ Has(node, "properties") /\ \E k \in 1..Len(node.properties) :
                                   ArrayWithoutItems(node.properties[k])
  \/ Has(node, "items") /\ ArrayWithoutItems(node.items)

\* C14: generateJsonSchema fails, and produces no document, for every field
\* tree that contains an array node without an item definition at any depth,
\* an array that is the item definition of another array included.
C14_ArrayWithoutItemsFails ==
  (Called /\ Has(schemaInput, "fields")
   /\ \E k \in 1..Len(schemaInput.fields) : ArrayWithoutItems(schemaInput.fields[k]))
    => IsError(document)

\* a type that is none of the recognized kinds somewhere in the tree
RECURSIVE UnknownType(_)
UnknownType(node) ==
  \/ node.type \notin RecognizedTypes
  \/ Has(node, "properties") /\ \E k \in 1..Len(node.properties) :
                                   UnknownType(node.properties[k])
  \/ Has(node, "items") /\ UnknownType(node.items)

\* the types a schema document carries
RECURSIVE CarriesUnknownType(_)
CarriesUnknownType(node) ==
  \/ node.type \notin RecognizedTypes
  \/ Has(node, "properties") /\ \E k \in 1..Len(node.properties) :
                                   CarriesUnknownType(node.properties[k][2])
  \/ Has(node, "items") /\ CarriesUnknownType(node.items)

\* C15: generateJsonSchema fails with an unknown-field-type error for every
\* field tree that contains, at any depth, a node whose type is not one of
\* string, number, boolean, array, object; no document carries such a type.
C15_UnknownTypeFails ==
  /\ (Called /\ Has(schemaInput, "fields")
      /\ \E k \in 1..Len(schemaInput.fields) : UnknownType(schemaInput.fields[k]))
       => (IsError(document) /\ document.error = "UnknownFieldType")
  /\ Produced => ~CarriesUnknownType(document.schema)

\* every array node of a schema document has its items schema, and every
\* object node under items has properties, required and
\* additionalProperties = false
RECURSIVE ArraysHaveItems(_)
ArraysHaveItems(node) ==
  /\ node.type = "array" => Has(node, "items")
  /\ Has(node, "items") =>
       /\ ArraysHaveItems(node.items)
       /\ node.items.type = "object" =>
            /\ Has(node.items, "properties") /\ Has(node.items, "required")
            /\ Has(node.items, "additionalProperties")
            /\ node.items.additionalProperties = FALSE
  /\ Has(node, "properties") =>
       \A k \in 1..Len(node.properties) : ArraysHaveItems(node.properties[k][2])

\* C16: in every document generateJsonSchema produces, every array node at
\* any depth (an array that is the item type of another array included)
\* carries one items schema, and every object node reachable through array
\* items carries properties, required and additionalProperties = false.
C16_EveryArrayHasItems ==
  Produced => ArraysHaveItems(document.schema)

(***************************************************************************)
(* Properties of userDailyLimit.                                           *)
(***************************************************************************)
\* the requests that passed userDailyLimit
Passed ==
  {r \in Callers : calls[r].pc = "handler" \/ calls[r].job \/ calls[r].status = 400}

\* C17: under any interleaving of concurrent requests of one owner on one
\* day at most the configured daily limit of requests pass userDailyLimit
\* and reach the job handler; every request made once the limit is used up
\* is answered 429 and creates no job.
C17_AtMostLimitPass ==
  /\ Cardinality(Passed) <= DailyLimit
  /\ \A r \in Callers :
       (calls[r].late /\ calls[r].pc = "done") =>
         (calls[r].status = 429 /\ ~calls[r].job)

(***************************************************************************)
(* Properties of the food pipeline.                                        *)
(***************************************************************************)
\* C18: in enrichFoodsWithCalories a detected food whose search returns no
\* match yields a record with an empty nutrients sequence; the remaining
\* foods are still looked up and the job goes on to the scaling stage.
C18_NoMatchYieldsEmptyNutrients ==
  app \in FoodApps =>
    \A k \in 1..Len(detectedFoods) :
      Happened("nomatch", k) =>
        /\ Has(realFoodData, "json") /\ Len(realFoodData.json) = Len(detectedFoods)
        /\ realFoodData.json[k].nutrients = <<>>
        /\ \A j \in (k + 1)..Len(detectedFoods) : Happened("lookup", j)
        /\ Happened("enriched", 0)
        /\ \A e \in 1..Len(emitted) : emitted[e].name # "ai-error"

\* C19: in every food-analysis variant the scaling stage (the second model
\* call) starts only after the reference lookup of all detected foods has
\* completed, and the reference data it is given is the result of that
\* lookup.
C19_ScalingAfterLookup ==
  \A p \in 1..Len(trace) :
    trace[p] = Ev("estimate", 0) =>
      /\ \E q \in 1..(p - 1) : trace[q] = Ev("enriched", 0)
      /\ Has(referenceGiven, "json")
      /\ Len(referenceGiven.json) = Len(detectedFoods)
      /\ \A k \in 1..Len(detectedFoods) :
           referenceGiven.json[k].foodName = detectedFoods[k].foodName

\* C20: the per-food nutrient values delivered for a completed food job, in
\* the ai-complete event and in the webhook payload, are the values of the
\* scaling stage rounded to the nearest integer.
C20_DeliveredValuesAreRounded ==
  /\ \A k \in 1..Len(emitted) :
       emitted[k].name = "ai-complete" =>
         emitted[k].detected_foods_with_nutrients
           = roundFoodNutrients(analyzedFileFoodData.foods)
  /\ \A k \in 1..Len(hooks) :
       (hooks[k].kind = "calorie" /\ Has(hooks[k].response, "foods")) =>
         hooks[k].response.foods = roundFoodNutrients(analyzedFileFoodData.foods)

\* the call of roundFoodNutrients has returned
Rounded == roundedFoods # NotCalled

\* Math.round of a number: the nearest integer, a half going up
NearestInteger(n) == CHOOSE m \in {10 * q : q \in 0..(n \div 10 + 1)} :
                       m - 5 <= n /\ n < m + 5

\* what the claim asks of one property of a rounded food
RoundedAsClaimed(key, before, after) ==
  IF key # "foodName" /\ before.type = "number"
  THEN after = JsNumber(NearestInteger(before.num))
  ELSE after = before

\* C21: roundFoodNutrients returns, for each food, an object with the keys
\* of its input in which foodName and every non-numeric value (a string,
\* null, a boolean) is unchanged and every number is replaced by its nearest
\* integer; 0 stays 0 and no key is dropped or changes its type.
C21_RoundsOnlyNumbers ==
  Rounded =>
    /\ Len(roundedFoods.foods) = Len(foodsArg)
    /\ \A k \in 1..Len(foodsArg) :
         /\ DOMAIN roundedFoods.foods[k] = DOMAIN foodsArg[k]
         /\ \A key \in DOMAIN foodsArg[k] :
              RoundedAsClaimed(key, foodsArg[k][key], roundedFoods.foods[k][key])

\* (q_est / q_ref) x value, all in tenths
Scaled(qEst, qRef, value) == (qEst * value) \div qRef

\* the energy of a reference entry, as a set: empty when the entry has none
ReferenceEnergy(entry) ==
  {entry.nutrients[n].value : n \in {m \in 1..Len(entry.nutrients) :
                                       entry.nutrients[m].nutrientName = "Energy"}}

\* the foods of a completed job are the reference values scaled by the
\* estimated serving
ScaledFromReference(foods) ==
  \A k \in 1..Len(foods) :
    \A v \in ReferenceEnergy(realFoodData.json[k]) :
      realFoodData.json[k].servingSize # 0 =>
        /\ Has(foods[k], "calories")
        /\ foods[k].calories
             = JsNumber(Scaled(detectedFoods[k].servingSize,
                               realFoodData.json[k].servingSize, v))

\* C22: for every food with estimated quantity q_est and non-zero reference
\* quantity q_ref, each delivered measurement equals (q_est / q_ref) x the
\* reference value (100, 200 and 50 give 100), and a reference measurement
\* of 0 yields 0, never null or a missing field.
C22_DeliveredValuesAreScaled ==
  (app \in FoodApps /\ Has(realFoodData, "json")) =>
    /\ \A k \in 1..Len(emitted) :
         emitted[k].name = "ai-complete" =>
           ScaledFromReference(emitted[k].detected_foods_with_nutrients)
    /\ \A k \in 1..Len(hooks) :
         (hooks[k].kind = "calorie" /\ Has(hooks[k].response, "foods")) =>
           ScaledFromReference(hooks[k].response.foods)

\* verifySignature has answered the request with a rejection
RejectedByGuard ==
  /\ GuardDecided
  /\ VerifyOutcome(GuardKind(app), req, now) \in {400, 401, 403}

\* C23: a request that verifySignature rejects (400, 401 or 403) gets no
\* acknowledgment, no external extraction call and no webhook; and in every
\* variant /api/extract-data extracts only for requests that have passed
\* signature verification.
C23_ExtractionOnlyAfterVerification ==
  /\ RejectedByGuard =>
       /\ ~Happened("ack", 0)
       /\ \A k \in 1..Len(trace) : trace[k].ev \notin WorkEvents
       /\ hooks = <<>>
  /\ (req.route = "extract-data" /\ \E k \in 1..Len(trace) : trace[k].ev = "extract") =>
       /\ Guarded(app, req.route)
       /\ VerifyOutcome(GuardKind(app), req, now) = 0

\* C24: on every guarded endpoint the payload the handler acts on is the one
\* parsed from the exact raw bytes after signature verification succeeded:
\* no request body is parsed into a structure before verification, and the
\* handler reads no body object other than the verified one.
C24_ParsedOnlyAfterVerification ==
  Guarded(app, req.route) =>
    /\ \A p \in 1..Len(trace) :
         trace[p].ev = "express.json" =>
           \E q \in 1..(p - 1) : trace[q].ev = "verified"
    /\ HandlerRan => BodyRead(app, req.route) = "req.verifiedBody"

\* one of the two headers is missing
HeaderMissing == Falsy(req.signature) \/ Falsy(req.timestamp)

C26_AckIsSignedEnvelope ==
  \A k \in 1..Len(res) :
    res[k].kind = "ack" =>
      /\ DOMAIN res[k].body = {"status", "note", "timestamp"}
      /\ res[k].body.status = "accepted"
      /\ res[k].body.timestamp = now * 1000
      /\ Has(res[k].headers, "xSignature")
      /\ res[k].headers.xSignature = Hmac(SHARED_SECRET, Stringify(res[k].body))

\* C27: in the schema-lookup variant of /api/extract-data (index.js), a
\* failure while analysing item k (document classification, schema lookup or
\* schema generation) marks only item k as failed: for a batch of N items,
\* N result records are still delivered.
C27_AnalysisFailureIsScoped ==
  (/\ app = "index" /\ req.route = "extract-data"
   /\ Finished /\ Happened("ack", 0)
   /\ \A k \in 1..Len(trace) : trace[k].ev # "postfailed") =>
    /\ Len(hooks) = Len(Batch(app, req))
    /\ \A k \in 1..Len(hooks) :
         Happened("analyzefailed", k) => hooks[k].status = "failed"

\* C28: a malformed field tree (for example an array field without items)
\* is reported synchronously to the HTTP caller with an error status, before
\* the acknowledgment is sent and before any asynchronous work or webhook
\* delivery for that request starts.
C28_MalformedTreeReportedSynchronously ==
  Happened("malformed", 0) =>
    /\ Status >= 400
    /\ ~Happened("ack", 0)
    /\ hooks = <<>>

\* a food-analysis job has reached a terminal state
JobEnded == app \in FoodApps /\ Happened("ack", 0) /\ pc = "done"

\* C29: on every terminal state of a food-analysis job (completed, rejected
\* or error) the server has emitted to the job's subscribers a named
\* completion or error event (ai-complete or ai-error), in addition to the
\* ai-progress events.
C29_TerminalStateHasNamedEvent ==
  JobEnded =>
    \E k \in 1..Len(emitted) : emitted[k].name \in {"ai-complete", "ai-error"}

\* no request stands between its redis.incr and its redis.expire
NoCallBetween == \A r \in Callers : calls[r].pc # "expire"

\* C30: the increment of the quota counter and its expiry are applied
\* atomically: also when a store call fails, a counter key for (owner, day)
\* never exists without an expiry.  Stated for the states in which no
\* request is between the two calls, which the claim includes.
C30_CounterAlwaysExpires ==
  (redisCount > 0 /\ NoCallBetween) => redisTtl > 0

\* the events a socket receives in a step
Received(s) == SubSeq(inbox'[s], Len(inbox[s]) + 1, Len(inbox'[s]))

FirstTwoSteps == {"started", "analyzing_image"}

\* what a step may hand to the sockets of a food job
NoFirstEventsForLateSubscriber ==
  app \in FoodApps =>
    \A s \in Sockets :
      (Happened("ack", 0) \/ JobId \notin rooms[s]) =>
        \A k \in 1..Len(Received(s)) : Received(s)[k].step \notin FirstTwoSteps

\* C32: a client that subscribes to a food job only after the acknowledgment
\* with the jobId was sent never receives the job's "started" (5%) and
\* "analyzing_image" (20%) events: both are published in the step that sends
\* the acknowledgment.  Checked on every step: a socket outside the job's
\* room receives neither event, and once the acknowledgment is out no socket
\* receives either of them any more.
C32_LateSubscriberMissesFirstEvents == [][NoFirstEventsForLateSubscriber]_vars

C32_Witness ==
  /\ app \in FoodApps /\ Happened("ack", 0)
  /\ \E k \in 1..Len(emitted) : emitted[k].step = "started"
  /\ \E s \in Sockets :
       /\ JobId \in rooms[s]
       /\ inbox[s] # <<>>
       /\ \A k \in 1..Len(inbox[s]) : inbox[s][k].step \notin FirstTwoSteps

\* the bytes of the body of the request at hand
BodySent == IF req.json THEN req.rawBody ELSE req.sent

\* verifySignature lets the request with the same route, headers and content
\* type but the body raw pass
AcceptsWithBody(raw) ==
  VerifyOutcome(GuardKind(app),
                Request(app, req.route, req.timestamp, req.signature, req.json, raw),
                now) = 0

\* C31: on every endpoint guarded by verifySignature, the multipart
\* /api/transcribe included, the signature covers the request body: two
\* requests with the same X-Timestamp and X-Signature but different bodies
\* are never both accepted.
C31_SignatureCoversBody ==
  (GuardDecided /\ HandlerRan) =>
    \A raw \in RawBodies : raw # BodySent => ~AcceptsWithBody(raw)

\* the requests userDailyLimit has taken up: its redis.incr has settled
Received_ByLimiter == {r \in Callers : calls[r].pc # "userDailyLimit"}

\* the requests whose redis.incr succeeded
Counted == {r \in Callers : calls[r].count > 0}

\* C33 as stated: userDailyLimit increments the owner's daily counter for
\* every authenticated request, the ones it answers 429 and the ones the
\* handler answers 400 included: the counter equals the number of
\* authenticated requests received that day.
C33_CounterEqualsRequestsReceived ==
  redisCount = Cardinality(Received_ByLimiter)

\* C33 amended: the counter equals the number of authenticated requests whose
\* redis.incr call succeeded, which includes every request answered 429 and
\* every request the handler answers 400 for a missing file; a request whose
\* redis.incr call rejects is answered 401 and is not counted.
C33_CounterEqualsIncrements ==
  /\ redisCount = Cardinality(Counted)
  /\ \A r \in Callers :
       calls[r].status \in {429, 400, 200} => r \in Counted
  /\ \A r \in Callers :
       (calls[r].pc = "done" /\ r \notin Counted) => calls[r].status = 401

C33_Witness ==
  /\ redisCount = MaxRequests
  /\ \E r \in Callers : calls[r].status = 429
  /\ \E r \in Callers : calls[r].status = 400
  /\ Cardinality({r \in Callers : calls[r].job}) < redisCount

\* the sum of the calories of the foods as they stand
RECURSIVE SumOfCalories(_)
SumOfCalories(foods) ==
  IF foods = <<>> THEN 0
  ELSE Head(foods).calories.num + SumOfCalories(Tail(foods))

\* C34: the total_calories of a completed food job equals the sum of the
\* individually rounded calories values of the foods, and therefore equals
\* the sum of the calories of the foods delivered in the same ai-complete
\* payload.
C34_TotalIsSumOfDeliveredCalories ==
  \A k \in 1..Len(emitted) :
    emitted[k].name = "ai-complete" =>
      /\ emitted[k].total_calories
           = SumOfCalories(roundFoodNutrients(analyzedFileFoodData.foods))
      /\ emitted[k].total_calories
           = SumOfCalories(emitted[k].detected_foods_with_nutrients)

\* C35: two upsertSchemaFile calls running concurrently, for the same or for
\* different vector stores, do not interfere: each call uploads exactly the
\* schema content it was given, and neither fails on the temporary file the
\* two share.
C35_ConcurrentUpsertsDoNotInterfere ==
  \A c \in DOMAIN upserts :
    /\ upserts[c].uploaded # "none" => upserts[c].uploaded = upserts[c].updatedSchemas
    /\ upserts[c].error # "ENOENT"

\* processing of the request has ended: answered by the guard, returned or
\* thrown
ProcessingEnded == pc \in {"done", "threw"}

\* C36: after processing of a /api/transcribe request ends, in any outcome
\* (transcription success, transcription or delivery failure, rejection by
\* verifySignature after the upload was stored), the uploaded temporary file
\* no longer exists on disk.
C36_UploadRemovedWhenProcessingEnds ==
  (req.route = "transcribe" /\ ProcessingEnded) => FilePath \notin uploads

\* what verifySignature of index.js computes for the request at hand
ComputedSignature == Hmac(SHARED_SECRET, SignedMessage(req.timestamp, req.rawBody))

\* C37: in index.js a multipart /api/transcribe request whose X-Signature
\* matches what verifySignature computes for it passes the guard, is
\* acknowledged with a signed 200 response and proceeds to transcription;
\* verifySignature never raises an error for a request whose signature
\* matches.
C37_MatchingMultipartIsAccepted ==
  (/\ app = "index" /\ req.route = "transcribe" /\ ~req.json /\ req.file
   /\ ~Falsy(req.timestamp) /\ req.signature = ComputedSignature
   /\ pc # "verifySignature") =>
     /\ Happened("verified", 0)
     /\ pc \in {"done", "threw"} =>
          /\ res # <<>> /\ res[1].status = 200
          /\ Happened("ack", 0) /\ Happened("transcribe", 0)

====
